---- MODULE Spec2Model ----
(***************************************************************************)
(* GitHub Copilot adapter of litellm: the streaming tool-call normalizer   *)
(* (GithubCopilotResponseIterator, chat/transformation.py) and the         *)
(* credential lifecycle manager (Authenticator, authenticator.py).         *)
(*                                                                         *)
(* Python values.  A mapping key that is missing is ABSENT, the value None *)
(* is NONE; both are falsy, like the empty string.  Argument strings are   *)
(* sequences of lexical tokens, so that concatenation, strip() and         *)
(* json.loads() are computed and not assumed:                              *)
(*     LB = '{'    RB = '}'    KV = '"a":1'    SP = ' '                    *)
(* Optional lists/ints are sequences of length 0 or 1.                     *)
(***************************************************************************)
EXTENDS Integers, Sequences, FiniteSets, TLC

ABSENT == "<absent>"
NONE == "<None>"
LB == "{"
RB == "}"
KV == "\"a\":1"
SP == " "
ArgsAbsent == <<ABSENT>>
ArgsNone == <<NONE>>

\* Python truthiness of an optional string / of an optional argument string.
Truthy(s) == s \notin {ABSENT, NONE, ""}
TruthyArgs(a) == a \notin {ArgsAbsent, ArgsNone, <<>>}

\* dict.get(key) and dict.get(key, default) on an optional value.
Get(v) == IF v = ABSENT THEN NONE ELSE v
GetInt(v, default) == IF v = <<>> THEN default ELSE v[1]

(***************************************************************************)
(* Strings: str.strip(), json.loads(), prefix.                             *)
(***************************************************************************)
RECURSIVE LStrip(_)
LStrip(s) == IF s # <<>> /\ Head(s) = SP THEN LStrip(Tail(s)) ELSE s

RECURSIVE RStrip(_)
RStrip(s) ==
  IF s # <<>> /\ s[Len(s)] = SP THEN RStrip(SubSeq(s, 1, Len(s) - 1)) ELSE s

Strip(s) == RStrip(LStrip(s))

\* json.loads(s) succeeds.  Over the tokens LB, RB, KV, SP the JSON texts are
\* exactly  ws '{' ws [ '"a":1' ws ] '}' ws.
JsonLoads(s) ==
  LET t == Strip(s)
  IN  /\ Len(t) >= 2
      /\ Head(t) = LB
      /\ t[Len(t)] = RB
      /\ Strip(SubSeq(t, 2, Len(t) - 1)) \in {<<>>, <<KV>>}

IsPrefix(p, s) == Len(p) <= Len(s) /\ SubSeq(s, 1, Len(p)) = p

(***************************************************************************)
(* Upstream events (the dict handed to chunk_parser).                      *)
(***************************************************************************)
\* One element of delta["tool_calls"].  kind "notdict": the element is not a
\* mapping.  function_kind "notdict": a truthy function value that is not a
\* mapping.  index is <<>> (no key) or <<i>>.
Frag(kind, index, id, type, function_kind, name, arguments) ==
  [kind |-> kind, index |-> index, id |-> id, type |-> type,
   function_kind |-> function_kind, name |-> name, arguments |-> arguments]

\* A well-formed fragment: index i, optional id, optional name and arguments.
TC(i, id, name, arguments) ==
  Frag("dict", <<i>>, id, "function",
       IF name = ABSENT /\ arguments = ArgsAbsent THEN "absent" ELSE "dict",
       name, arguments)

\* One element of chunk["choices"].  delta_kind: "absent", "none" or "dict";
\* tool_calls <<>> stands for a missing, None or empty delta["tool_calls"].
Choice(delta_kind, content, tool_calls, finish_reason) ==
  [delta_kind |-> delta_kind, content |-> content, tool_calls |-> tool_calls,
   finish_reason |-> finish_reason]

\* The chunk.  kind "none": chunk is None.  choices_kind: "absent", "none" or
\* "list".  usage is ABSENT or a usage block; index is <<>> or <<i>>.
Event(kind, choices_kind, choices, usage, index) ==
  [kind |-> kind, choices_kind |-> choices_kind, choices |-> choices,
   usage |-> usage, index |-> index]

Ev(choices) == Event("dict", "list", choices, ABSENT, <<>>)

(***************************************************************************)
(* The accumulator self.tool_calls_by_index: a dict, kept in insertion     *)
(* order as a sequence of [key, id, name, arguments, type].                *)
(***************************************************************************)
HasKey(acc, i) == \E k \in 1..Len(acc) : acc[k].key = i
PosOf(acc, i) == CHOOSE k \in 1..Len(acc) : acc[k].key = i
EntryOf(acc, i) == acc[PosOf(acc, i)]
Keys(acc) == {acc[k].key : k \in 1..Len(acc)}

NewEntry(i, call_type) ==
  [key |-> i, id |-> "", name |-> "", arguments |-> <<>>, type |-> call_type]

\* Variant: an entry without a name passes the validation.
ValidateWithoutName(entry) == TRUE

\* _validate_tool_call_structure: False exactly when the name is missing; a
\* missing id and unparsable arguments are only logged.
validate_tool_call_structure(entry) == entry.name # ""

\* _validate_arguments_json: empty and whitespace-only count as valid.
validate_arguments_json(arguments) ==
  \/ arguments = <<>>
  \/ Strip(arguments) = <<>>
  \/ JsonLoads(arguments)

\* Variant: the wrapped string is returned without parsing it again.
FixJsonNoRecheck(arguments) ==
  IF arguments = <<>> \/ Strip(arguments) = <<>> THEN <<LB, RB>>
  ELSE IF JsonLoads(arguments) THEN arguments
  ELSE IF Head(Strip(arguments)) # LB
  THEN <<LB>> \o Strip(arguments) \o <<RB>>
  ELSE Strip(arguments)

\* _fix_json_arguments
fix_json_arguments(arguments) ==
  IF arguments = <<>> \/ Strip(arguments) = <<>> THEN <<LB, RB>>
  ELSE IF JsonLoads(arguments) THEN arguments
  ELSE LET stripped == Strip(arguments)
           fixed == IF Head(stripped) # LB
                    THEN <<LB>> \o stripped \o <<RB>>
                    ELSE stripped
       IN  IF JsonLoads(fixed) THEN fixed ELSE <<LB, RB>>

\* entry['name'] after "if func_data.get('name'): entry['name'] = ..."
UpdateName(entry, func_name) ==
  IF Truthy(func_name) THEN func_name ELSE entry.name

\* Variants of the accumulation: "=" written for "+=", and the operands of
\* the concatenation swapped.
UpdateArgumentsReplace(entry, func_arguments) ==
  IF TruthyArgs(func_arguments) THEN func_arguments ELSE entry.arguments

UpdateArgumentsPrepend(entry, func_arguments) ==
  IF TruthyArgs(func_arguments)
  THEN func_arguments \o entry.arguments
  ELSE entry.arguments

\* entry['arguments'] after "if func_data.get('arguments'): entry[...] += ..."
UpdateArguments(entry, func_arguments) ==
  IF TruthyArgs(func_arguments)
  THEN entry.arguments \o func_arguments
  ELSE entry.arguments

\* entry['id'] after "if call_id is not None: entry['id'] = call_id"
UpdateId(entry, call_id) ==
  IF Get(call_id) # NONE THEN call_id ELSE entry.id

\* tool_call.get("index", 0) and tool_call.get("type", "function")
CallIndex(tool_call) == GetInt(tool_call.index, 0)
CallType(tool_call) ==
  IF tool_call.type = ABSENT THEN "function" ELSE tool_call.type

\* "if call_index not in self.tool_calls_by_index: ..."
EnsureEntry(acc, tool_call) ==
  IF HasKey(acc, CallIndex(tool_call))
  THEN acc
  ELSE Append(acc, NewEntry(CallIndex(tool_call), CallType(tool_call)))

\* func_data.get raises AttributeError: the function value is truthy and
\* not a mapping.
FunctionRaises(tool_call) == tool_call.function_kind = "notdict"

WithId(entry, tool_call) ==
  [entry EXCEPT !.id = UpdateId(entry, tool_call.id)]
WithName(entry, tool_call) ==
  IF tool_call.function_kind = "dict"
  THEN [entry EXCEPT !.name = UpdateName(entry, tool_call.name)]
  ELSE entry
WithArguments(entry, tool_call) ==
  IF tool_call.function_kind = "dict"
  THEN [entry EXCEPT !.arguments = UpdateArguments(entry, tool_call.arguments)]
  ELSE entry

\* The entry after the element was folded in: id, then name, then arguments;
\* when the function value raises, only the id was stored.
FoldEntry(entry, tool_call) ==
  IF FunctionRaises(tool_call)
  THEN WithId(entry, tool_call)
  ELSE WithArguments(WithName(WithId(entry, tool_call), tool_call), tool_call)

\* Variant: the chunk carries the arguments of the current fragment alone.
ToolCallChunkOfFragment(entry, tool_call) ==
  IF FunctionRaises(tool_call) \/ ~validate_tool_call_structure(entry)
  THEN <<>>
  ELSE << [index |-> CallIndex(tool_call), id |-> entry.id,
           type |-> "function",
           function |-> [name |-> entry.name,
                         arguments |-> IF TruthyArgs(tool_call.arguments)
                                       THEN tool_call.arguments
                                       ELSE <<>>]] >>

\* The chunk appended to processed_calls for the folded entry: none when the
\* element raised or _validate_tool_call_structure returned False.
ToolCallChunk(entry, tool_call) ==
  IF FunctionRaises(tool_call) \/ ~validate_tool_call_structure(entry)
  THEN <<>>
  ELSE << [index |-> CallIndex(tool_call), id |-> entry.id,
           type |-> "function",
           function |-> [name |-> entry.name, arguments |-> entry.arguments]] >>

StoreEntry(acc, p, entry, tool_call) ==
  [acc |-> [acc EXCEPT ![p] = entry], chunk |-> ToolCallChunk(entry, tool_call)]

FoldInto(acc, tool_call) ==
  StoreEntry(acc, PosOf(acc, CallIndex(tool_call)),
             FoldEntry(EntryOf(acc, CallIndex(tool_call)), tool_call), tool_call)

\* The body of the for loop of _process_tool_calls_robust for one element:
\* the accumulator afterwards, and the chunk appended to processed_calls
\* (<<>> when the element is skipped or raises).  An element that is not a
\* mapping raises at tool_call.get, before anything was touched.
ProcessOne(acc, tool_call) ==
  IF tool_call.kind # "dict"
  THEN [acc |-> acc, chunk |-> <<>>]
  ELSE FoldInto(EnsureEntry(acc, tool_call), tool_call)

\* _process_tool_calls_robust: the loop over delta_tool_calls from element k.
RECURSIVE ProcessLoop(_, _, _, _)
ProcessNext(r, delta_tool_calls, k, processed_calls) ==
  ProcessLoop(r.acc, delta_tool_calls, k + 1, processed_calls \o r.chunk)

\* Variant: the first element that raises ends the loop, and the call
\* returns None.
ProcessLoopAbort(acc, delta_tool_calls, k, processed_calls) ==
  IF k > Len(delta_tool_calls)
  THEN [acc |-> acc, processed_calls |-> processed_calls]
  ELSE IF delta_tool_calls[k].kind # "dict" \/ FunctionRaises(delta_tool_calls[k])
  THEN [acc |-> acc, processed_calls |-> <<>>]
  ELSE ProcessNext(ProcessOne(acc, delta_tool_calls[k]), delta_tool_calls, k,
                   processed_calls)

ProcessLoop(acc, delta_tool_calls, k, processed_calls) ==
  IF k > Len(delta_tool_calls)
  THEN [acc |-> acc, processed_calls |-> processed_calls]
  ELSE ProcessNext(ProcessOne(acc, delta_tool_calls[k]), delta_tool_calls, k,
                   processed_calls)

process_tool_calls_robust(acc, delta_tool_calls) ==
  ProcessLoop(acc, delta_tool_calls, 1, <<>>)

\* _flush_completed_tool_calls, the record appended for one entry: the
\* arguments are repaired only when _validate_arguments_json rejects them.
\* (flushed_at, a wall-clock stamp, is left out.)
FlushRecord(entry) ==
  [index |-> entry.key,
   tool_call |-> [id |-> entry.id, name |-> entry.name, type |-> entry.type,
                  arguments |-> IF validate_arguments_json(entry.arguments)
                                THEN entry.arguments
                                ELSE fix_json_arguments(entry.arguments)]]

\* The entries moved to the finished list: those with a name (arguments is
\* never None in an entry), in the dict's insertion order.
RECURSIVE FlushRecords(_)
FlushRecords(acc) ==
  IF acc = <<>> THEN <<>>
  ELSE (IF Head(acc).name # "" THEN <<FlushRecord(Head(acc))>> ELSE <<>>)
       \o FlushRecords(Tail(acc))

\* Variant: the flush without the clear().
ClearedNot(acc) == acc

\* The accumulator after the flush (self.tool_calls_by_index.clear()).
Cleared(acc) == <<>>

\* _flush_completed_tool_calls on (accumulator, finished list).
flush_completed_tool_calls(acc, finished) ==
  IF acc = <<>>
  THEN [acc |-> acc, finished |-> finished]
  ELSE [acc |-> Cleared(acc), finished |-> finished \o FlushRecords(acc)]

(***************************************************************************)
(* chunk_parser                                                            *)
(***************************************************************************)
\* delta = choice.get("delta", {}) or {}; delta.get("tool_calls")
DeltaToolCalls(choice) ==
  IF choice.delta_kind = "dict" THEN choice.tool_calls ELSE <<>>

\* delta.get("content", "") of the first choice
DeltaContent(choice) ==
  IF choice.delta_kind # "dict" \/ choice.content = ABSENT
  THEN ""
  ELSE choice.content

\* Variant: the second choice is never looked at.
SelectToolCallsFirstOnly(choices) == DeltaToolCalls(choices[1])

\* The tool calls chunk_parser hands to _process_tool_calls_robust: those of
\* the first choice, else (two or more choices) those of the second.
SelectToolCalls(choices) ==
  IF DeltaToolCalls(choices[1]) = <<>> /\ Len(choices) >= 2
  THEN DeltaToolCalls(choices[2])
  ELSE DeltaToolCalls(choices[1])

\* Variant: tool_use_list[-1].
ToolUseLast(tool_use_list) ==
  IF tool_use_list # <<>> THEN <<tool_use_list[Len(tool_use_list)]>> ELSE <<>>

\* tool_use = tool_use_list[0] when the list is not empty, else None (<<>>).
ToolUse(tool_use_list) ==
  IF tool_use_list # <<>> THEN <<tool_use_list[1]>> ELSE <<>>

\* The loop "for choice_item in chunk['choices']" from element k: the finish
\* reason of the first choice that has a truthy one (the loop breaks there),
\* NONE when no choice has one.
RECURSIVE ScanFinishFrom(_, _)
ScanFinishFrom(choices, k) ==
  IF k > Len(choices) THEN NONE
  ELSE IF Truthy(choices[k].finish_reason) THEN choices[k].finish_reason
  ELSE ScanFinishFrom(choices, k + 1)

\* Variant: a tool_calls finish reason in any choice wins over the others.
ScanFinishAnyToolCalls(choices) ==
  IF \E k \in 1..Len(choices) : choices[k].finish_reason = "tool_calls"
  THEN "tool_calls"
  ELSE ScanFinishFrom(choices, 1)

\* Variant: only the first choice is asked for a finish reason.
ScanFinishFirstChoiceOnly(choices) ==
  IF Truthy(choices[1].finish_reason) THEN choices[1].finish_reason ELSE NONE

ScanFinish(choices) == ScanFinishFrom(choices, 1)

\* The GenericStreamingChunk built at the end of chunk_parser.
Chunk(text, tool_use, is_finished, finish_reason, usage, index) ==
  [text |-> text, tool_use |-> tool_use, is_finished |-> is_finished,
   finish_reason |-> finish_reason, usage |-> usage, index |-> index]

\* Variant: the text is taken from the last choice instead of the first.
EmitChunkLastChoice(f, r, finish_reason, last_fr, chunk) ==
  [raised |-> FALSE,
   chunk |-> <<Chunk(DeltaContent(chunk.choices[Len(chunk.choices)]),
                     ToolUse(r.processed_calls),
                     finish_reason # NONE,
                     IF finish_reason # NONE THEN finish_reason ELSE "",
                     Get(chunk.usage), GetInt(chunk.index, 0))>>,
   acc |-> f.acc, finished |-> f.finished,
   last_fr |-> IF finish_reason = "tool_calls" THEN finish_reason ELSE last_fr,
   handed |-> SelectToolCalls(chunk.choices),
   flushed |-> finish_reason = "tool_calls"]

\* The end of chunk_parser: r is what _process_tool_calls_robust returned,
\* f the accumulator and the finished list after the finish-reason loop.
EmitChunk(f, r, finish_reason, last_fr, chunk) ==
  [raised |-> FALSE,
   chunk |-> <<Chunk(DeltaContent(chunk.choices[1]),
                     ToolUse(r.processed_calls),
                     finish_reason # NONE,
                     IF finish_reason # NONE THEN finish_reason ELSE "",
                     Get(chunk.usage), GetInt(chunk.index, 0))>>,
   acc |-> f.acc, finished |-> f.finished,
   last_fr |-> IF finish_reason = "tool_calls" THEN finish_reason ELSE last_fr,
   handed |-> SelectToolCalls(chunk.choices),
   flushed |-> finish_reason = "tool_calls"]

\* The finish-reason loop: the flush when the reason found is tool_calls.
AfterToolCalls(r, finish_reason, finished, last_fr, chunk) ==
  EmitChunk(IF finish_reason = "tool_calls"
            THEN flush_completed_tool_calls(r.acc, finished)
            ELSE [acc |-> r.acc, finished |-> finished],
            r, finish_reason, last_fr, chunk)

\* Variant: the flush runs on the accumulator as it was before the event's
\* tool calls were folded in; they are folded into the emptied accumulator.
FlushFirstEmit(r, f, finish_reason, last_fr, chunk) ==
  EmitChunk([acc |-> r.acc, finished |-> f.finished], r, finish_reason,
            last_fr, chunk)

ChunkParserFlushFirst(acc, finished, last_fr, chunk) ==
  IF chunk.kind # "dict"
  THEN [raised |-> TRUE, chunk |-> <<>>, acc |-> acc, finished |-> finished,
        last_fr |-> last_fr, handed |-> <<>>, flushed |-> FALSE]
  ELSE IF ~(chunk.choices_kind = "list" /\ chunk.choices # <<>>)
  THEN [raised |-> FALSE,
        chunk |-> <<Chunk("", <<>>, FALSE, "", Get(chunk.usage),
                          GetInt(chunk.index, 0))>>,
        acc |-> acc, finished |-> finished, last_fr |-> last_fr,
        handed |-> <<>>, flushed |-> FALSE]
  ELSE IF ScanFinish(chunk.choices) = "tool_calls"
  THEN FlushFirstEmit(
         process_tool_calls_robust(<<>>, SelectToolCalls(chunk.choices)),
         flush_completed_tool_calls(acc, finished),
         "tool_calls", last_fr, chunk)
  ELSE AfterToolCalls(
         process_tool_calls_robust(acc, SelectToolCalls(chunk.choices)),
         ScanFinish(chunk.choices), finished, last_fr, chunk)

\* Variant: an event without a non-empty choices list raises as well.
ChunkParserStrict(acc, finished, last_fr, chunk) ==
  IF chunk.kind # "dict" \/ ~(chunk.choices_kind = "list" /\ chunk.choices # <<>>)
  THEN [raised |-> TRUE, chunk |-> <<>>, acc |-> acc, finished |-> finished,
        last_fr |-> last_fr, handed |-> <<>>, flushed |-> FALSE]
  ELSE AfterToolCalls(
         process_tool_calls_robust(acc, SelectToolCalls(chunk.choices)),
         ScanFinish(chunk.choices), finished, last_fr, chunk)

\* chunk_parser(chunk) on the iterator state (acc, finished, last_fr).
\* raised: GithubCopilotError and no chunk; chunk: <<>> or <<the chunk>>;
\* handed: the tool calls given to _process_tool_calls_robust;
\* flushed: _flush_completed_tool_calls was called.
chunk_parser(acc, finished, last_fr, chunk) ==
  IF chunk.kind # "dict"
  THEN [raised |-> TRUE, chunk |-> <<>>, acc |-> acc, finished |-> finished,
        last_fr |-> last_fr, handed |-> <<>>, flushed |-> FALSE]
  ELSE IF ~(chunk.choices_kind = "list" /\ chunk.choices # <<>>)
  THEN [raised |-> FALSE,
        chunk |-> <<Chunk("", <<>>, FALSE, "", Get(chunk.usage),
                          GetInt(chunk.index, 0))>>,
        acc |-> acc, finished |-> finished, last_fr |-> last_fr,
        handed |-> <<>>, flushed |-> FALSE]
  ELSE AfterToolCalls(
         process_tool_calls_robust(acc, SelectToolCalls(chunk.choices)),
         ScanFinish(chunk.choices), finished, last_fr, chunk)

(***************************************************************************)
(* State of one GithubCopilotResponseIterator, and what the last call of   *)
(* chunk_parser was given and produced.                                    *)
(***************************************************************************)
VARIABLES
  tool_calls_by_index,            \* self.tool_calls_by_index
  finished_tool_calls,            \* self.finished_tool_calls
  last_tool_call_finish_reason,   \* self.last_tool_call_finish_reason
  event,      \* the chunk given to the last chunk_parser call
  out,        \* its outcome: [raised, chunk, flushed]
  history,    \* the tool calls handed to _process_tool_calls_robust since
              \* the last flush, in arrival order
  nEvents     \* number of chunk_parser calls so far

streamVars == <<tool_calls_by_index, finished_tool_calls,
                last_tool_call_finish_reason, event, out, history, nEvents>>

(***************************************************************************)
(* State of the credential store and of one Authenticator.get_api_key call.*)
(***************************************************************************)
VARIABLES
  access_token_file,  \* content of the access-token file, NOFILE when it
                      \* cannot be opened for reading
  api_key_file,       \* the API-key file: [kind, token, expires_at]
  can_write_access,   \* open(access_token_file, "w") succeeds
  can_write_api,      \* open(api_key_file, "w") succeeds
  now,                \* datetime.now().timestamp()
  pc,                 \* where the running call is: "idle" (no call),
                      \* "device_code", "poll", "refresh"
  attempt,            \* loop variable of get_access_token
  poll_attempt,       \* loop variable of _poll_for_access_token
  retry,              \* loop variable of _refresh_api_key
  access_token,       \* the access token _refresh_api_key works with
  read_key,           \* the API-key file as the call read it
  read_now,           \* the time the call compared expires_at with
  requests,           \* requests sent by the call: [device, poll, refresh]
                      \* (poll: for the current device code)
  slept,              \* time.sleep(5) calls of the current polling loop
  last_poll,          \* the last response to a poll request for the current
                      \* device code, "none" before the first
  last_refresh,       \* the last response to a refresh request of the call
  result              \* outcome of the call: [status, value, source]

authVars == <<access_token_file, api_key_file, can_write_access, can_write_api,
              now, pc, attempt, poll_attempt, retry, access_token, read_key,
              read_now, requests, slept, last_poll, last_refresh, result>>

(***************************************************************************)
(* What went into chunk_parser and what came out of it, over a whole       *)
(* stream.                                                                 *)
(***************************************************************************)
VARIABLES
  upstream,   \* the events given to chunk_parser so far, in arrival order
  texts       \* the text fields of the chunks it emitted, in order

traceVars == <<upstream, texts>>

(***************************************************************************)
(* Two processes in get_api_key on the same store: the API-key file at the *)
(* grain of its bytes, and where each process is.                          *)
(***************************************************************************)
VARIABLES
  api_key_text,   \* content of the API-key file: a sequence of pieces of
                  \* serialized records
  procs           \* per process: [pc, retry, resp, result]

raceVars == <<api_key_text, procs>>

(***************************************************************************)
(* Several GithubCopilotResponseIterator objects: the heap of the dicts    *)
(* and lists they hold, and the same streams processed by one iterator     *)
(* each, alone.                                                            *)
(***************************************************************************)
VARIABLES
  heap,      \* address -> the dict or list stored there
  iters,     \* per iterator: <<>> before it is constructed, else
             \* <<[tool_calls_by_index |-> address,
             \*    finished_tool_calls |-> address,
             \*    last_tool_call_finish_reason |-> value]>>
  emitted,   \* per iterator: the outcome of its last chunk_parser call
  alone      \* per iterator: [acc, finished, last_fr, out] of an iterator
             \* that was given the same events and nothing else happened

instVars == <<heap, iters, emitted, alone>>

(***************************************************************************)
(* Calls on one GithubCopilotConfig: the objects the caller passes to      *)
(* transform_request, which the call changes in place, the requests built, *)
(* and the errors built from upstream responses.                           *)
(***************************************************************************)
VARIABLES
  model,            \* the model argument: a sequence of name pieces
  messages,         \* the caller's message list (the dicts in it are shared
                    \* with the call)
  optional_params,  \* the caller's parameter dict: [stream, intent, n, tools]
  given,            \* messages and optional_params as they were before the
                    \* first call
  built,            \* outcome of each shaping call so far, in order:
                    \* [via, raised, request, from]
  raw_response,     \* the upstream response given to transform_response, or
                    \* the arguments given to get_error_class:
                    \* [call, status_code, body, text, is_none]
  error,            \* what the last call raised or returned
  repaired          \* an argument string, what _fix_json_arguments made
                    \* of it, and what it made of that:
                    \* [original, once, twice, calls]

configVars == <<model, messages, optional_params, given, built, raw_response,
                error, repaired>>

\* Everything the Authenticator does not touch.
nonAuthVars == <<streamVars, traceVars, raceVars, instVars, configVars>>

vars == <<streamVars, authVars, traceVars, raceVars, instVars, configVars>>

NOFILE == "<no file>"

\* A file whose bytes are not UTF-8 text: reading it raises
\* UnicodeDecodeError, which is neither an IOError nor a JSONDecodeError.
UNDECODABLE == "<not text>"

\* The API-key file: unreadable, not JSON, or a JSON object with an optional
\* token and an optional expires_at (<<>> or <<t>>).
KeyFile(kind, token, expires_at) ==
  [kind |-> kind, token |-> token, expires_at |-> expires_at]
NoKeyFile == KeyFile("nofile", ABSENT, <<>>)
BadKeyFile == KeyFile("badjson", ABSENT, <<>>)
UndecodableKeyFile == KeyFile("undecodable", ABSENT, <<>>)

NoRequests == [device |-> 0, poll |-> 0, refresh |-> 0]
NoResult == [status |-> "none", value |-> NONE, source |-> "none"]
NoResponse == [kind |-> "none", token |-> ABSENT, expires_at |-> <<>>]

\* A store nobody has used, no call running.
AuthQuiet ==
  /\ access_token_file = NOFILE
  /\ api_key_file = NoKeyFile
  /\ can_write_access = TRUE
  /\ can_write_api = TRUE
  /\ now = 1
  /\ pc = "idle"
  /\ attempt = 0
  /\ poll_attempt = 0
  /\ retry = 0
  /\ access_token = ""
  /\ read_key = NoKeyFile
  /\ read_now = 1
  /\ requests = NoRequests
  /\ slept = 0
  /\ last_poll = "none"
  /\ last_refresh = NoResponse
  /\ result = NoResult

\* The two processes and the two iterators.
Procs == {1, 2}
Iters == {1, 2}

NoOut == [raised |-> FALSE, chunk |-> <<>>, flushed |-> FALSE]

\* No stream recorded.
TraceQuiet == upstream = <<>> /\ texts = <<>>

\* No process has called get_api_key.
ProcsIdle ==
  procs = [p \in Procs |-> [pc |-> "idle", retry |-> 0,
                             resp |-> NoResponse, result |-> NoResult]]

RaceQuiet == api_key_text = <<>> /\ ProcsIdle

\* No iterator object exists.
InstQuiet ==
  /\ heap = <<>>
  /\ iters = [i \in Iters |-> <<>>]
  /\ emitted = [i \in Iters |-> NoOut]
  /\ alone = [i \in Iters |-> [acc |-> <<>>, finished |-> <<>>,
                                last_fr |-> NONE, out |-> NoOut]]

\* The parameter dict: every key is <<>> (no such key) or <<value>>.
Params(stream, intent, n, tools) ==
  [stream |-> stream, intent |-> intent, n |-> n, tools |-> tools]

\* A JSON body, as far as the error handling looks into it.  json: "object",
\* "not_object" (an array, a string, a number, null) or "not_json"; error,
\* the value of its "error" key: "absent", "dict", "string" or "null";
\* message and code: keys of the error dict.
Body(json, error_kind, message, code) ==
  [json |-> json, error |-> error_kind, message |-> message, code |-> code]

\* The value None where a body is expected.
NoBody == Body("none", "absent", ABSENT, ABSENT)

NoRawResponse ==
  [call |-> "none", status_code |-> 0, body |-> NoBody, text |-> <<>>,
   is_none |-> FALSE]
NoError == [kind |-> "none", status_code |-> 0, message |-> <<>>,
            category |-> "none"]
NotRepaired == [original |-> <<>>, once |-> <<>>, twice |-> <<>>, calls |-> 0]

\* No call on the GithubCopilotConfig yet.
ConfigQuiet ==
  /\ model = <<>>
  /\ messages = <<>>
  /\ optional_params = Params(<<>>, <<>>, <<>>, <<>>)
  /\ given = [messages |-> <<>>,
              optional_params |-> Params(<<>>, <<>>, <<>>, <<>>)]
  /\ built = <<>>
  /\ raw_response = NoRawResponse
  /\ error = NoError
  /\ repaired = NotRepaired

\* Bounds of the explored streams.
MaxAccumEvents == 4
MaxChunkEvents == 3

\* GithubCopilotResponseIterator.__init__
StreamInit ==
  /\ tool_calls_by_index = <<>>
  /\ finished_tool_calls = <<>>
  /\ last_tool_call_finish_reason = NONE
  /\ event = Ev(<<>>)
  /\ out = [raised |-> FALSE, chunk |-> <<>>, flushed |-> FALSE]
  /\ history = <<>>
  /\ nEvents = 0

\* The iterator after a chunk_parser call with outcome r.
Apply(r, chunk) ==
  /\ tool_calls_by_index' = r.acc
  /\ finished_tool_calls' = r.finished
  /\ last_tool_call_finish_reason' = r.last_fr
  /\ event' = chunk
  /\ out' = [raised |-> r.raised, chunk |-> r.chunk, flushed |-> r.flushed]
  /\ history' = IF r.flushed THEN <<>> ELSE history \o r.handed
  /\ nEvents' = nEvents + 1
  /\ UNCHANGED <<authVars, raceVars, instVars, configVars>>

\* One call chunk_parser(chunk).
Parse(chunk) ==
  /\ Apply(chunk_parser(tool_calls_by_index, finished_tool_calls,
                        last_tool_call_finish_reason, chunk), chunk)
  /\ UNCHANGED traceVars

(***************************************************************************)
(* Streams of single-choice events carrying one tool-call fragment, a      *)
(* finish reason, or both: the accumulation and the flush.                 *)
(***************************************************************************)
AccumFragments ==
  { TC(0, "c1", "f", ArgsAbsent),
    TC(0, ABSENT, ABSENT, <<LB>>),
    TC(0, ABSENT, ABSENT, <<KV>>),
    TC(0, ABSENT, ABSENT, <<RB>>),
    TC(0, ABSENT, ABSENT, <<SP>>),
    TC(0, ABSENT, "g", ArgsAbsent),
    TC(0, "c2", ABSENT, ArgsAbsent),
    TC(0, "c1", "f", <<LB, KV, RB>>),
    TC(1, "c2", "g", ArgsAbsent),
    TC(1, ABSENT, ABSENT, <<KV>>),
    TC(1, "c2", "g", <<LB, RB>>) }

AccumEvents ==
  { Ev(<<Choice("dict", ABSENT, <<tc>>, ABSENT)>>) : tc \in AccumFragments }
  \cup
  { Ev(<<Choice("dict", ABSENT, <<>>, fr)>>) : fr \in {"tool_calls", "stop"} }
  \cup
  { Ev(<<Choice("dict", ABSENT, <<tc>>, "tool_calls")>>) :
      tc \in { TC(0, ABSENT, ABSENT, <<RB>>), TC(0, "c1", "f", <<LB, KV, RB>>) } }

AccumParse ==
  /\ nEvents < MaxAccumEvents
  /\ \E chunk \in AccumEvents : Parse(chunk)

AccumNext == AccumParse

InitStream ==
  StreamInit /\ AuthQuiet /\ TraceQuiet /\ RaceQuiet /\ InstQuiet
  /\ ConfigQuiet

SpecAccum == InitStream /\ [][AccumNext]_vars

(***************************************************************************)
(* What a stream of fragments asks for, read off the fragments themselves. *)
(***************************************************************************)
FragIndex(f) == IF f.index = <<>> THEN 0 ELSE f.index[1]

\* The fragments of the sequence fs that address call index i, in order.
FragsAt(fs, i) == LET At(f) == FragIndex(f) = i IN SelectSeq(fs, At)

\* The argument text a fragment carries ("" when it carries none).
ArgsText(f) == IF TruthyArgs(f.arguments) THEN f.arguments ELSE <<>>

RECURSIVE ConcatArgs(_)
ConcatArgs(fs) ==
  IF fs = <<>> THEN <<>> ELSE ArgsText(Head(fs)) \o ConcatArgs(Tail(fs))

\* The id / name carried by the last fragment of fs that carries one.
RECURSIVE LastId(_)
LastId(fs) ==
  IF fs = <<>> THEN ""
  ELSE IF Get(fs[Len(fs)].id) # NONE THEN fs[Len(fs)].id
  ELSE LastId(SubSeq(fs, 1, Len(fs) - 1))

RECURSIVE LastName(_)
LastName(fs) ==
  IF fs = <<>> THEN ""
  ELSE IF Truthy(fs[Len(fs)].name) THEN fs[Len(fs)].name
  ELSE LastName(SubSeq(fs, 1, Len(fs) - 1))

\* A complete fragment: non-empty name and non-empty arguments together.
IsComplete(f) == Truthy(f.name) /\ TruthyArgs(f.arguments)

\* The last chunk_parser call emitted a chunk with this finish reason.
FinishedWith(o, reason) ==
  o.chunk # <<>> /\ o.chunk[1].finish_reason = reason

\* C2: between two flushes, the accumulator holds exactly the call indices
\* the received fragments addressed, and for each of them the arguments are
\* the concatenation, in arrival order, of the argument strings of its
\* fragments, and the id and the name are those of the fragments that
\* carried one.
C2_ArgumentsAreConcatenation ==
  /\ Keys(tool_calls_by_index) = {FragIndex(history[k]) : k \in 1..Len(history)}
  /\ \A i \in Keys(tool_calls_by_index) :
        LET e == EntryOf(tool_calls_by_index, i)
            fs == FragsAt(history, i)
        IN  /\ e.arguments = ConcatArgs(fs)
            /\ e.id = LastId(fs)
            /\ e.name = LastName(fs)

\* C2 witness: id and name came in a first fragment, the arguments in three
\* later ones.
C2_Witness ==
  /\ Len(history) = 4
  /\ history[1] = TC(0, "c1", "f", ArgsAbsent)
  /\ HasKey(tool_calls_by_index, 0)
  /\ EntryOf(tool_calls_by_index, 0)
       = [key |-> 0, id |-> "c1", name |-> "f", arguments |-> <<LB, KV, RB>>,
          type |-> "function"]

\* C3 (as claimed): when the last fragment received for an index is a
\* complete one, the entry's arguments are that fragment's arguments alone.
C3_CompleteOverwrites ==
  \A i \in Keys(tool_calls_by_index) :
    LET fs == FragsAt(history, i)
    IN  (fs # <<>> /\ IsComplete(fs[Len(fs)]))
          => EntryOf(tool_calls_by_index, i).arguments = fs[Len(fs)].arguments

\* C4: a chunk_parser call that reports finish reason tool_calls leaves the
\* accumulator empty, and after the next call every entry holds only what
\* that call's own fragments carried.
C4_FlushClears ==
  [][ /\ FinishedWith(out', "tool_calls") => tool_calls_by_index' = <<>>
      /\ (FinishedWith(out, "tool_calls") /\ ~out'.flushed)
           => LET handed == SelectToolCalls(event'.choices)
              IN  \A i \in Keys(tool_calls_by_index') :
                    LET e == EntryOf(tool_calls_by_index', i)
                        fs == FragsAt(handed, i)
                    IN  /\ e.arguments = ConcatArgs(fs)
                        /\ e.id = LastId(fs)
                        /\ e.name = LastName(fs) ]_vars

\* C4 witness: a flush emptied a non-empty accumulator, and the next event
\* brought arguments for the index used before.
C4_Witness ==
  /\ finished_tool_calls # <<>>
  /\ finished_tool_calls[1].index = 0
  /\ ~out.flushed
  /\ history = <<TC(0, ABSENT, ABSENT, <<KV>>)>>
  /\ tool_calls_by_index = <<[key |-> 0, id |-> "", name |-> "",
                               arguments |-> <<KV>>, type |-> "function"]>>

\* C5 (as claimed): every finished tool call has a non-empty name and
\* arguments that parse as JSON.
C5_FinishedParse ==
  \A k \in 1..Len(finished_tool_calls) :
    /\ finished_tool_calls[k].tool_call.name # ""
    /\ JsonLoads(finished_tool_calls[k].tool_call.arguments)

\* C7 (as claimed): a non-empty name of an entry does not change before the
\* entry is flushed.
C7_NameNeverOverwritten ==
  [][ ~out'.flushed =>
        \A i \in Keys(tool_calls_by_index) :
          EntryOf(tool_calls_by_index, i).name # ""
            => /\ HasKey(tool_calls_by_index', i)
               /\ EntryOf(tool_calls_by_index', i).name
                    = EntryOf(tool_calls_by_index, i).name ]_vars

\* C8: a chunk_parser call that does not flush keeps every entry, and the
\* entry's arguments before the call are a prefix of its arguments after.
C8_ArgumentsAppendOnly ==
  [][ ~out'.flushed =>
        \A i \in Keys(tool_calls_by_index) :
          /\ HasKey(tool_calls_by_index', i)
          /\ IsPrefix(EntryOf(tool_calls_by_index, i).arguments,
                      EntryOf(tool_calls_by_index', i).arguments) ]_vars

\* C8 witness: an entry whose arguments grew over two fragments while
\* another index was accumulating too.
C8_Witness ==
  /\ ~out.flushed
  /\ Keys(tool_calls_by_index) = {0, 1}
  /\ EntryOf(tool_calls_by_index, 0).arguments = <<LB, KV>>
  /\ EntryOf(tool_calls_by_index, 1).arguments = <<KV>>

(***************************************************************************)
(* Streams of events with zero, one or two choices, several fragments per  *)
(* event, and events that are not a mapping or have no choices list.       *)
(***************************************************************************)
ChunkChoices ==
  { Choice("dict", "hi", <<>>, ""),
    Choice("dict", ABSENT, <<>>, "stop"),
    Choice("none", ABSENT, <<>>, NONE),
    Choice("dict", ABSENT, <<TC(0, "c1", "f", <<KV>>)>>, ABSENT),
    Choice("dict", ABSENT, <<TC(0, ABSENT, ABSENT, <<RB>>)>>, "tool_calls"),
    Choice("dict", ABSENT,
           <<TC(0, ABSENT, ABSENT, <<LB>>), TC(1, "c2", "g", <<LB, RB>>)>>,
           ABSENT),
    Choice("dict", "hi",
           <<TC(1, "c2", "g", ArgsAbsent), TC(0, "c1", "f", ArgsAbsent)>>,
           ABSENT) }

ChunkEvents ==
  { Ev(<<>>), Event("none", "absent", <<>>, ABSENT, <<>>),
    Event("dict", "absent", <<>>, "usage", <<>>),
    Event("dict", "absent", <<>>, ABSENT, <<>>),
    Event("dict", "none", <<>>, ABSENT, <<>>) }
  \cup { Ev(<<c>>) : c \in ChunkChoices }
  \cup { Ev(<<c1, c2>>) : c1 \in ChunkChoices, c2 \in ChunkChoices }

ChunkParse ==
  /\ nEvents < MaxChunkEvents
  /\ \E chunk \in ChunkEvents : Parse(chunk)

ChunkNext == ChunkParse

SpecChunk == InitStream /\ [][ChunkNext]_vars

\* The event is a mapping with a non-empty choices list.
HasChoices(ev) ==
  ev.kind = "dict" /\ ev.choices_kind = "list" /\ ev.choices # <<>>

\* Some choice of the event carries a non-empty finish reason.
HasFinish(ev) ==
  /\ HasChoices(ev)
  /\ \E k \in 1..Len(ev.choices) : Truthy(ev.choices[k].finish_reason)

\* C6: the emitted chunk has is_finished = true exactly when some choice of
\* the event carries a non-empty finish reason; otherwise is_finished is
\* false and finish_reason is the empty string.
C6_FinishedIffFinishReason ==
  (nEvents > 0 /\ out.chunk # <<>>) =>
    /\ out.chunk[1].is_finished = HasFinish(event)
    /\ HasFinish(event) => Truthy(out.chunk[1].finish_reason)
    /\ ~HasFinish(event) => out.chunk[1].finish_reason = ""

\* C6 witness: only the second choice carries a finish reason.
C6_Witness ==
  /\ HasChoices(event) /\ Len(event.choices) = 2
  /\ ~Truthy(event.choices[1].finish_reason)
  /\ event.choices[2].finish_reason = "stop"
  /\ out.chunk # <<>> /\ out.chunk[1].is_finished
  /\ out.chunk[1].finish_reason = "stop"

\* The entry of index i in acc, a fresh one when the index is new.
EntryOrNew(acc, i) ==
  IF HasKey(acc, i) THEN EntryOf(acc, i) ELSE NewEntry(i, "function")

\* The state of index i after the fragments fs were folded into acc.
NameAfter(acc, fs, i) ==
  IF LastName(FragsAt(fs, i)) # "" THEN LastName(FragsAt(fs, i))
  ELSE EntryOrNew(acc, i).name
IdAfter(acc, fs, i) ==
  IF \E k \in 1..Len(fs) : FragIndex(fs[k]) = i /\ Get(fs[k].id) # NONE
  THEN LastId(FragsAt(fs, i))
  ELSE EntryOrNew(acc, i).id
ArgsAfter(acc, fs, i) ==
  EntryOrNew(acc, i).arguments \o ConcatArgs(FragsAt(fs, i))

\* accNew is acc with exactly the fragments fs folded in.
FoldedInto(acc, fs, accNew) ==
  /\ Keys(accNew) = Keys(acc) \cup {FragIndex(fs[k]) : k \in 1..Len(fs)}
  /\ \A i \in Keys(accNew) :
        /\ EntryOf(accNew, i).name = NameAfter(acc, fs, i)
        /\ EntryOf(accNew, i).id = IdAfter(acc, fs, i)
        /\ EntryOf(accNew, i).arguments = ArgsAfter(acc, fs, i)

\* The positions of fs whose fragment leaves its index with a name: the
\* fragments that reconstruct a tool call.
Reconstructing(acc, fs) ==
  { k \in 1..Len(fs) :
      NameAfter(acc, SubSeq(fs, 1, k), FragIndex(fs[k])) # "" }

\* tool_use is the call reconstructed by the first reconstructing fragment
\* of fs, and None when there is none.
SurfacesFirst(acc, fs, tool_use) ==
  IF Reconstructing(acc, fs) = {}
  THEN tool_use = <<>>
  ELSE LET k == CHOOSE x \in Reconstructing(acc, fs) :
                   \A y \in Reconstructing(acc, fs) : x <= y
           pre == SubSeq(fs, 1, k)
           i == FragIndex(fs[k])
       IN  tool_use = << [index |-> i, id |-> IdAfter(acc, pre, i),
                          type |-> "function",
                          function |-> [name |-> NameAfter(acc, pre, i),
                                        arguments |-> ArgsAfter(acc, pre, i)]] >>

\* The event has two choices or more, the first without and the second with
\* tool calls.
SecondChoiceOnly(ev) ==
  /\ HasChoices(ev) /\ Len(ev.choices) >= 2
  /\ DeltaToolCalls(ev.choices[1]) = <<>>
  /\ DeltaToolCalls(ev.choices[2]) # <<>>

\* The event has two choices or more and the first carries tool calls.
FirstChoiceHas(ev) ==
  /\ HasChoices(ev) /\ Len(ev.choices) >= 2
  /\ DeltaToolCalls(ev.choices[1]) # <<>>

\* C9 (as claimed): tool calls found only in the second choice always give
\* the chunk a non-null tool_use.
C9_SecondChoiceAlwaysSurfaces ==
  (nEvents > 0 /\ SecondChoiceOnly(event) /\ out.chunk # <<>>)
    => out.chunk[1].tool_use # <<>>

\* C9 (amended): tool calls found only in the second choice are folded into
\* the accumulator, and the chunk's tool_use is non-null exactly when one of
\* these fragments leaves its index with a non-empty name; when the first
\* choice carries tool calls, only those are folded and surfaced.
C9_SecondChoiceFallback ==
  [][ /\ SecondChoiceOnly(event') =>
           LET fs == DeltaToolCalls(event'.choices[2])
           IN  /\ out'.chunk # <<>>
               /\ ~out'.flushed =>
                    FoldedInto(tool_calls_by_index, fs, tool_calls_by_index')
               /\ (out'.chunk[1].tool_use # <<>>)
                    <=> (Reconstructing(tool_calls_by_index, fs) # {})
               /\ SurfacesFirst(tool_calls_by_index, fs, out'.chunk[1].tool_use)
      /\ FirstChoiceHas(event') =>
           LET fs == DeltaToolCalls(event'.choices[1])
           IN  /\ out'.chunk # <<>>
               /\ ~out'.flushed =>
                    FoldedInto(tool_calls_by_index, fs, tool_calls_by_index')
               /\ SurfacesFirst(tool_calls_by_index, fs, out'.chunk[1].tool_use)
    ]_vars

\* C9 witness: the first choice is plain content, the second holds a named
\* call, and the chunk surfaces it.
C9_Witness ==
  /\ SecondChoiceOnly(event)
  /\ event.choices[1].content = "hi"
  /\ out.chunk # <<>> /\ out.chunk[1].text = "hi"
  /\ out.chunk[1].tool_use # <<>>
  /\ out.chunk[1].tool_use[1].function.name = "f"
  /\ HasKey(tool_calls_by_index, 0)

\* C10: a chunk carries at most one tool call; all the fragments of the
\* event are folded into the accumulator, and the tool call on the chunk is
\* the one reconstructed by the first fragment, in the event's order, that
\* reconstructs one.
C10_FirstReconstructedSurfaces ==
  [][ (HasChoices(event') /\ out'.chunk # <<>>) =>
        LET fs == IF DeltaToolCalls(event'.choices[1]) # <<>>
                     \/ Len(event'.choices) < 2
                  THEN DeltaToolCalls(event'.choices[1])
                  ELSE DeltaToolCalls(event'.choices[2])
        IN  /\ Len(out'.chunk[1].tool_use) <= 1
            /\ ~out'.flushed =>
                 FoldedInto(tool_calls_by_index, fs, tool_calls_by_index')
            /\ SurfacesFirst(tool_calls_by_index, fs, out'.chunk[1].tool_use)
    ]_vars

\* C10 witness: an event with fragments for the indices 0 and 1; the first
\* one is still nameless, so the call of index 1 is surfaced, and both
\* indices are in the accumulator.
C10_Witness ==
  /\ HasChoices(event) /\ Len(event.choices) = 1
  /\ Len(event.choices[1].tool_calls) = 2
  /\ FragIndex(event.choices[1].tool_calls[1]) = 0
  /\ out.chunk # <<>> /\ out.chunk[1].tool_use # <<>>
  /\ out.chunk[1].tool_use[1].index = 1
  /\ Keys(tool_calls_by_index) = {0, 1}
  /\ EntryOf(tool_calls_by_index, 0).arguments = <<LB>>

\* The first choice, in the event's order, with a non-empty finish reason
\* carries this reason.
FirstFinishIs(ev, reason) ==
  /\ HasFinish(ev)
  /\ LET k == CHOOSE x \in 1..Len(ev.choices) :
                /\ Truthy(ev.choices[x].finish_reason)
                /\ \A y \in 1..(x - 1) : ~Truthy(ev.choices[y].finish_reason)
     IN  ev.choices[k].finish_reason = reason

\* The argument text the flush records for the text a.
Recorded(a) ==
  IF validate_arguments_json(a) THEN a ELSE fix_json_arguments(a)

\* The records a flush adds when the fragments fs are folded into acc
\* first: one for every index that ends with a name.
RecordsAfterFold(acc, fs) ==
  { [index |-> i,
     tool_call |-> [id |-> IdAfter(acc, fs, i), name |-> NameAfter(acc, fs, i),
                    type |-> "function",
                    arguments |-> Recorded(ArgsAfter(acc, fs, i))]] :
      i \in { j \in Keys(acc) \cup {FragIndex(fs[k]) : k \in 1..Len(fs)} :
                NameAfter(acc, fs, j) # "" } }

\* The records the last call appended to the finished list.
Appended(before, after) ==
  { after[k] : k \in (Len(before) + 1)..Len(after) }

\* C11 (as claimed): when some choice of the event carries the finish
\* reason tool_calls, every named tool-call fragment the event carries, in
\* whichever choice, has a record in the finished list.
C11_OwnFragmentsFlushed ==
  (nEvents > 0 /\ HasChoices(event) /\ out.chunk # <<>>
   /\ \E k \in 1..Len(event.choices) :
         event.choices[k].finish_reason = "tool_calls")
    => \A k \in 1..Len(event.choices) :
         \A j \in 1..Len(DeltaToolCalls(event.choices[k])) :
           LET f == DeltaToolCalls(event.choices[k])[j]
           IN  Truthy(f.name) =>
                 \E n \in 1..Len(finished_tool_calls) :
                   /\ finished_tool_calls[n].index = FragIndex(f)
                   /\ finished_tool_calls[n].tool_call.name = f.name

\* C11 (amended): the flush runs exactly when the first non-empty finish
\* reason, in the order of the choices, is tool_calls, and it runs after the
\* tool calls handed to the accumulator (those of the first choice, else
\* those of the second) were folded in: the records it appends are those
\* of the accumulator with these fragments folded in, and the accumulator
\* is empty afterwards.
C11_FoldBeforeFlush ==
  [][ (HasChoices(event') /\ out'.chunk # <<>>) =>
        /\ out'.flushed <=> FirstFinishIs(event', "tool_calls")
        /\ out'.flushed =>
             /\ tool_calls_by_index' = <<>>
             /\ SubSeq(finished_tool_calls', 1, Len(finished_tool_calls))
                  = finished_tool_calls
             /\ Appended(finished_tool_calls, finished_tool_calls')
                  = RecordsAfterFold(tool_calls_by_index,
                                     IF DeltaToolCalls(event'.choices[1]) # <<>>
                                        \/ Len(event'.choices) < 2
                                     THEN DeltaToolCalls(event'.choices[1])
                                     ELSE DeltaToolCalls(event'.choices[2]))
             /\ Len(finished_tool_calls') - Len(finished_tool_calls)
                  = Cardinality(RecordsAfterFold(tool_calls_by_index,
                                     IF DeltaToolCalls(event'.choices[1]) # <<>>
                                        \/ Len(event'.choices) < 2
                                     THEN DeltaToolCalls(event'.choices[1])
                                     ELSE DeltaToolCalls(event'.choices[2])))
        /\ ~out'.flushed => finished_tool_calls' = finished_tool_calls
    ]_vars

\* C11 witness: the call of index 0 got its name and part of its arguments
\* in one event; the terminating event brought the closing brace together
\* with the finish reason, and the record holds the arguments with it.
C11_Witness ==
  /\ out.flushed
  /\ event = Ev(<<Choice("dict", ABSENT,
                         <<TC(0, ABSENT, ABSENT, <<RB>>)>>, "tool_calls")>>)
  /\ tool_calls_by_index = <<>>
  /\ finished_tool_calls
       = << [index |-> 0,
             tool_call |-> [id |-> "c1", name |-> "f", type |-> "function",
                            arguments |-> <<LB, KV, RB>>]] >>

(***************************************************************************)
(* Streams of content events: the text of the emitted chunks against the   *)
(* content deltas of the events.                                           *)
(***************************************************************************)
MaxTextEvents == 3

TextChoices ==
  { Choice("dict", c, <<>>, ABSENT) : c \in {"a", "b", "", ABSENT, NONE} }
  \cup { Choice("none", ABSENT, <<>>, NONE) }

TextEvents ==
  { Ev(<<>>), Event("none", "absent", <<>>, ABSENT, <<>>),
    Event("dict", "none", <<>>, ABSENT, <<>>) }
  \cup { Ev(<<c>>) : c \in TextChoices }
  \cup { Ev(<<c1, c2>>) :
           c1 \in { Choice("dict", c, <<>>, ABSENT) : c \in {"a", ABSENT} },
           c2 \in { Choice("dict", c, <<>>, ABSENT) : c \in {"b", ABSENT} } }

\* The iterator and the record of the stream after a chunk_parser call
\* with outcome r.
ApplyTraced(r, chunk) ==
  /\ Apply(r, chunk)
  /\ upstream' = Append(upstream, chunk)
  /\ texts' = texts \o [k \in 1..Len(r.chunk) |-> r.chunk[k].text]

TextParse ==
  /\ nEvents < MaxTextEvents
  /\ \E chunk \in TextEvents :
       ApplyTraced(chunk_parser(tool_calls_by_index, finished_tool_calls,
                                last_tool_call_finish_reason, chunk), chunk)

TextNext == TextParse

InitText ==
  StreamInit /\ AuthQuiet /\ TraceQuiet /\ RaceQuiet /\ InstQuiet
  /\ ConfigQuiet

SpecText == InitText /\ [][TextNext]_vars

\* A text as a sequence of pieces, so that texts can be concatenated: the
\* empty text and a missing content contribute nothing.
Pieces(text) == IF text \in {"", ABSENT} THEN <<>> ELSE <<text>>

RECURSIVE ConcatPieces(_)
ConcatPieces(ts) ==
  IF ts = <<>> THEN <<>> ELSE Pieces(Head(ts)) \o ConcatPieces(Tail(ts))

\* The content deltas an event carries, choice by choice.
ContentDeltas(ev) ==
  IF ~HasChoices(ev) THEN <<>>
  ELSE [k \in 1..Len(ev.choices) |->
          IF ev.choices[k].delta_kind = "dict"
          THEN ev.choices[k].content ELSE ABSENT]

\* The content delta of the event's first choice.
FirstContentDelta(ev) ==
  IF ContentDeltas(ev) = <<>> THEN ABSENT ELSE ContentDeltas(ev)[1]

RECURSIVE AllContent(_)
AllContent(evs) ==
  IF evs = <<>> THEN <<>>
  ELSE ConcatPieces(ContentDeltas(Head(evs))) \o AllContent(Tail(evs))

RECURSIVE FirstChoiceContent(_)
FirstChoiceContent(evs) ==
  IF evs = <<>> THEN <<>>
  ELSE Pieces(FirstContentDelta(Head(evs))) \o FirstChoiceContent(Tail(evs))

\* The events that are mappings, in order.
Mappings(evs) == LET IsDict(ev) == ev.kind = "dict" IN SelectSeq(evs, IsDict)

MaxTime == 2

\* range(3) of get_access_token, max_attempts of _poll_for_access_token,
\* max_retries of _refresh_api_key.
LoginAttempts == 3
MaxPollAttempts == 12
MaxRetries == 3

\* f.read().strip() on the stored contents used here.
StripText(text) == IF text = " " THEN "" ELSE text

\* get_access_token, the part before the device flow: the stored token, ""
\* when the file cannot be read or holds nothing but whitespace.
StoredAccessToken(file) == IF file = NOFILE THEN "" ELSE StripText(file)

\* Variant: ">=" written for ">".
CacheHitAtOrAfter(key, t) ==
  key.kind = "record" /\ GetInt(key.expires_at, 0) >= t

\* get_api_key, the test on the stored record: json.load succeeded and
\* api_key_info.get("expires_at", 0) > datetime.now().timestamp().
CacheHit(key, t) ==
  key.kind = "record" /\ GetInt(key.expires_at, 0) > t

Returned(value, source) ==
  [status |-> "returned", value |-> value, source |-> source]
Raised(exception) ==
  [status |-> "raised", value |-> exception, source |-> "none"]

\* GithubCopilotConfig._get_openai_compatible_provider_info on the outcome
\* of get_api_key: GetAPIKeyError becomes AuthenticationError, any other
\* exception passes through, a returned key is the dynamic_api_key.
get_openai_compatible_provider_info(res) ==
  IF res.status = "raised" /\ res.value = "GetAPIKeyError"
  THEN Raised("AuthenticationError")
  ELSE res

\* The call is over: its local variables are gone.
Finish(res) ==
  /\ pc' = "idle"
  /\ result' = res
  /\ attempt' = 0
  /\ poll_attempt' = 0
  /\ retry' = 0
  /\ access_token' = ""

\* get_api_key up to its first network request: the cached key is returned,
\* or _refresh_api_key starts and get_access_token reads the stored token.
\* Of the failures of reading a file, IOError and JSONDecodeError are
\* caught (a cache miss, no stored token); UnicodeDecodeError is not caught
\* by get_api_key, get_access_token or _refresh_api_key.
GetApiKey ==
  /\ pc = "idle"
  /\ read_key' = api_key_file
  /\ read_now' = now
  /\ requests' = NoRequests
  /\ slept' = 0
  /\ last_poll' = "none"
  /\ last_refresh' = NoResponse
  /\ IF api_key_file.kind = "undecodable"
     THEN Finish(Raised("UnicodeDecodeError"))
     ELSE IF CacheHit(api_key_file, now)
     THEN Finish(Returned(Get(api_key_file.token), "cache"))
     ELSE IF access_token_file = UNDECODABLE
     THEN Finish(Raised("UnicodeDecodeError"))
     ELSE /\ result' = NoResult
          /\ attempt' = 0
          /\ poll_attempt' = 0
          /\ retry' = 0
          /\ access_token' = StoredAccessToken(access_token_file)
          /\ pc' = IF StoredAccessToken(access_token_file) # ""
                   THEN "refresh"
                   ELSE "device_code"
  /\ UNCHANGED <<access_token_file, api_key_file, can_write_access,
                 can_write_api, now, nonAuthVars>>

\* Variant: get_access_token gives up at the first failed _login.
LoginFailedNoRetry == Finish(Raised("GetAccessTokenError"))

\* Variant: get_access_token makes a fourth _login attempt.
LoginFailedFourth ==
  IF attempt < LoginAttempts
  THEN /\ attempt' = attempt + 1
       /\ pc' = "device_code"
       /\ poll_attempt' = 0
       /\ UNCHANGED <<retry, access_token, result>>
  ELSE Finish(Raised("GetAccessTokenError"))

\* One _login attempt of get_access_token failed (GetDeviceCodeError or
\* GetAccessTokenError): the next attempt, or after the third one
\* GetAccessTokenError, which get_api_key does not catch.
LoginFailed ==
  IF attempt + 1 < LoginAttempts
  THEN /\ attempt' = attempt + 1
       /\ pc' = "device_code"
       /\ poll_attempt' = 0
       /\ UNCHANGED <<retry, access_token, result>>
  ELSE Finish(Raised("GetAccessTokenError"))

\* _get_device_code: one request; any failure is GetDeviceCodeError.
GetDeviceCode ==
  /\ pc = "device_code"
  /\ \E ok \in BOOLEAN :
       IF ok
       THEN /\ requests' = [requests EXCEPT !.device = @ + 1, !.poll = 0]
            /\ pc' = "poll"
            /\ poll_attempt' = 0
            /\ UNCHANGED <<attempt, retry, access_token, result>>
       ELSE /\ requests' = [requests EXCEPT !.device = @ + 1]
            /\ LoginFailed
  /\ slept' = 0
  /\ last_poll' = "none"
  /\ UNCHANGED <<access_token_file, api_key_file, can_write_access,
                 can_write_api, now, read_key, read_now, last_refresh,
                 nonAuthVars>>

\* Variant: one more turn of the polling loop.
PollAgainOffByOne(n) == n < MaxPollAttempts

\* for attempt in range(max_attempts): after poll number n + 1 (n counted
\* from 0) there is another one.
PollAgain(n) == n + 1 < MaxPollAttempts

PollResponses == {"grant", "pending", "other_error", "http_error", "bad_json"}

\* _poll_for_access_token: one poll request.  A grant ends the device flow
\* and get_access_token saves the token (a failed save is only logged); a
\* response without access_token that did not raise is followed by
\* time.sleep(5) and the next poll, the 12th by the timeout error; an HTTP
\* error and an undecodable body raise GetAccessTokenError.
PollForAccessToken ==
  /\ pc = "poll"
  /\ requests' = [requests EXCEPT !.poll = @ + 1]
  /\ \E resp \in PollResponses :
       /\ last_poll' = resp
       /\ CASE resp = "grant" ->
                /\ access_token_file' =
                     IF can_write_access THEN "gho_B" ELSE access_token_file
                /\ access_token' = "gho_B"
                /\ pc' = "refresh"
                /\ retry' = 0
                /\ poll_attempt' = 0
                /\ UNCHANGED <<attempt, result, slept>>
           [] resp \in {"pending", "other_error"} ->
                /\ UNCHANGED access_token_file
                /\ slept' = slept + 1
                /\ IF PollAgain(poll_attempt)
                   THEN /\ poll_attempt' = poll_attempt + 1
                        /\ UNCHANGED <<pc, attempt, retry, access_token, result>>
                   ELSE LoginFailed
           [] OTHER ->
                /\ UNCHANGED <<access_token_file, slept>>
                /\ LoginFailed
  /\ UNCHANGED <<api_key_file, can_write_access, can_write_api, now,
                 read_key, read_now, last_refresh, nonAuthVars>>

\* The bodies the token endpoint answers a refresh request with.
RefreshResponses ==
  { [kind |-> "ok", token |-> tk, expires_at |-> e] :
      tk \in {"tokB", ""}, e \in {<<>>} \cup {<<t>> : t \in 1..(MaxTime + 1)} }
  \cup { [kind |-> k, token |-> ABSENT, expires_at |-> <<>>] :
           k \in {"no_token", "http_error"} }

\* Variant: when the last retry has failed the stored access token is given
\* up and the device flow starts.
RefreshApiKeyRelogin ==
  /\ pc = "refresh"
  /\ requests' = [requests EXCEPT !.refresh = @ + 1]
  /\ \E resp \in RefreshResponses :
       /\ last_refresh' = resp
       /\ IF resp.kind = "ok"
          THEN IF can_write_api
               THEN /\ api_key_file' = KeyFile("record", resp.token, resp.expires_at)
                    /\ IF resp.token # ""
                       THEN Finish(Returned(resp.token, "refresh"))
                       ELSE Finish(Raised("GetAPIKeyError"))
               ELSE /\ UNCHANGED api_key_file
                    /\ Finish(Raised("GetAPIKeyError"))
          ELSE /\ UNCHANGED api_key_file
               /\ IF retry + 1 < MaxRetries
                  THEN /\ retry' = retry + 1
                       /\ UNCHANGED <<pc, attempt, poll_attempt, access_token, result>>
                  ELSE /\ pc' = "device_code"
                       /\ retry' = 0
                       /\ attempt' = 0
                       /\ poll_attempt' = 0
                       /\ access_token' = ""
                       /\ UNCHANGED result
  /\ UNCHANGED <<access_token_file, can_write_access, can_write_api, now,
                 read_key, read_now, slept, last_poll, nonAuthVars>>

\* _refresh_api_key: one request of the retry loop, and what get_api_key
\* does with a response that holds a token key: it writes the record to the
\* API-key file, then returns the token or raises when it is empty.
RefreshApiKey ==
  /\ pc = "refresh"
  /\ requests' = [requests EXCEPT !.refresh = @ + 1]
  /\ \E resp \in RefreshResponses :
       /\ last_refresh' = resp
       /\ IF resp.kind = "ok"
          THEN IF can_write_api
               THEN /\ api_key_file' = KeyFile("record", resp.token, resp.expires_at)
                    /\ IF resp.token # ""
                       THEN Finish(Returned(resp.token, "refresh"))
                       ELSE Finish(Raised("GetAPIKeyError"))
               ELSE /\ UNCHANGED api_key_file
                    /\ Finish(Raised("GetAPIKeyError"))
          ELSE /\ UNCHANGED api_key_file
               /\ IF retry + 1 < MaxRetries
                  THEN /\ retry' = retry + 1
                       /\ UNCHANGED <<pc, attempt, poll_attempt, access_token, result>>
                  ELSE Finish(Raised("GetAPIKeyError"))
  /\ UNCHANGED <<access_token_file, can_write_access, can_write_api, now,
                 read_key, read_now, slept, last_poll, nonAuthVars>>

\* Time passes between two calls.
Tick ==
  /\ pc = "idle"
  /\ now < MaxTime
  /\ now' = now + 1
  /\ UNCHANGED <<access_token_file, api_key_file, can_write_access,
                 can_write_api, pc, attempt, poll_attempt, retry, access_token,
                 read_key, read_now, requests, slept, last_poll, last_refresh,
                 result, nonAuthVars>>

\* A call is about to start on a store whose files are among these.
StoreStart(access_files, key_files) ==
  /\ access_token_file \in access_files
  /\ api_key_file \in key_files
  /\ can_write_access \in BOOLEAN
  /\ can_write_api \in BOOLEAN
  /\ now = 1
  /\ pc = "idle"
  /\ attempt = 0
  /\ poll_attempt = 0
  /\ retry = 0
  /\ access_token = ""
  /\ read_key = NoKeyFile
  /\ read_now = 1
  /\ requests = NoRequests
  /\ slept = 0
  /\ last_poll = "none"
  /\ last_refresh = NoResponse
  /\ result = NoResult

\* The API-key records a call can find.
StoredRecords ==
  { KeyFile("record", "abc", e) :
      e \in {<<>>} \cup {<<t>> : t \in 1..(MaxTime + 1)} }

\* The stores a call can find.
AuthInit ==
  StoreStart({NOFILE, " ", "gho_A"},
             {NoKeyFile, BadKeyFile} \cup StoredRecords)

AuthNext ==
  \/ GetApiKey
  \/ GetDeviceCode
  \/ PollForAccessToken
  \/ RefreshApiKey
  \/ Tick

InitAuth ==
  StreamInit /\ AuthInit /\ TraceQuiet /\ RaceQuiet /\ InstQuiet
  /\ ConfigQuiet

SpecAuth == InitAuth /\ [][AuthNext]_vars

\* The same calls on stores that may also hold files that are not text.
InitStore ==
  /\ StreamInit
  /\ StoreStart({NOFILE, " ", "gho_A", UNDECODABLE},
                {NoKeyFile, BadKeyFile, UndecodableKeyFile} \cup StoredRecords)
  /\ TraceQuiet /\ RaceQuiet /\ InstQuiet /\ ConfigQuiet

SpecStore == InitStore /\ [][AuthNext]_vars

\* A get_api_key call has completed.
CallDone == pc = "idle" /\ result.status # "none"

\* The record the call read is valid at the time the call read.
ValidKey(key, t) ==
  key.kind = "record" /\ key.expires_at # <<>> /\ key.expires_at[1] > t

NoNetwork == requests = NoRequests

\* C1 (as claimed): a call that found a record with expires_at greater than
\* the current time returned its token without any request; every other
\* call sent a refresh request and did not return the stored token.
C1_RefreshOnEveryMiss ==
  CallDone =>
    IF ValidKey(read_key, read_now)
    THEN result = Returned(Get(read_key.token), "cache") /\ NoNetwork
    ELSE requests.refresh >= 1 /\ result.source # "cache"

\* C1 (amended): a call that found a record with expires_at greater than
\* the current time returned its token without any request; every other
\* call did not return the stored token, and it sent a refresh request
\* unless no access token could be obtained: none was stored and three
\* device-flow attempts failed, which ends the call with
\* GetAccessTokenError.
C1_CacheHitOrRefresh ==
  CallDone =>
    IF ValidKey(read_key, read_now)
    THEN result = Returned(Get(read_key.token), "cache") /\ NoNetwork
    ELSE /\ result.source # "cache"
         /\ \/ requests.refresh >= 1
            \/ /\ result = Raised("GetAccessTokenError")
               /\ StoredAccessToken(access_token_file) = ""
               /\ requests.device = LoginAttempts

\* C1 witness: the stored key expires exactly now; the call refreshed and
\* returned the new token, not the stored one.
C1_Witness ==
  /\ CallDone
  /\ read_key = KeyFile("record", "abc", <<read_now>>)
  /\ result = Returned("tokB", "refresh")
  /\ requests.refresh = 2

\* The device flow of get_access_token is running.
InDeviceFlow == pc \in {"device_code", "poll"}

\* This step is a request of the device flow that ends get_access_token
\* with a token.
Granted == pc = "poll" /\ pc' = "refresh"

\* C13: the device flow runs only when the store gives no non-empty access
\* token; it is attempted at most 3 times, each attempt with one
\* device-code request; the first attempt that obtains a token ends it (the
\* token is returned to _refresh_api_key, and written to the file when the
\* file is writable) and no further attempt starts; GetAccessTokenError is
\* raised after exactly 3 failed attempts.
C13_ThreeLoginAttempts ==
  [][ /\ InDeviceFlow' =>
           /\ StoredAccessToken(access_token_file') = ""
           /\ attempt' < LoginAttempts
           /\ requests'.device = attempt' + (IF pc' = "poll" THEN 1 ELSE 0)
      /\ requests'.device <= LoginAttempts
      /\ Granted =>
           /\ access_token' = "gho_B"
           /\ access_token_file'
                = (IF can_write_access THEN "gho_B" ELSE access_token_file)
           /\ requests'.device = requests.device
      /\ (pc = "refresh") => (pc' \in {"refresh", "idle"}
                               /\ requests'.device = requests.device)
      /\ (result'.status = "raised" /\ result'.value = "GetAccessTokenError")
           => (requests'.device = LoginAttempts /\ requests'.refresh = 0)
      /\ (InDeviceFlow /\ pc' = "idle")
           => (result' = Raised("GetAccessTokenError")
               /\ requests'.device = LoginAttempts)
    ]_vars

\* C13 witness: the first attempt failed, the second obtained the token,
\* which is in the file, and the call went on to the refresh: two
\* device-code requests were sent.
C13_Witness ==
  /\ pc = "refresh"
  /\ requests.device = 2
  /\ access_token = "gho_B"
  /\ access_token_file = "gho_B"

\* This step is a poll request.
Polls == pc = "poll" /\ requests'.poll = requests.poll + 1

\* This step ends the running device-flow attempt as a failed one: the next
\* attempt starts, or get_access_token raises.
AttemptFails ==
  \/ pc' = "device_code" /\ attempt' = attempt + 1
  \/ pc' = "idle" /\ result' = Raised("GetAccessTokenError")

\* C14: an attempt sends at most 12 poll requests for its device code; an
\* authorization_pending answer to one of the first 11 is followed by one
\* sleep and the next poll, so that before each poll there was one sleep per
\* earlier poll; the first answer with a token ends the polling without a
\* sleep and without another poll; a 12th answer that is still pending ends
\* the attempt with GetAccessTokenError.
C14_BoundedPolling ==
  [][ /\ requests'.poll <= MaxPollAttempts
      /\ pc' = "poll" => (slept' = requests'.poll /\ poll_attempt' = requests'.poll)
      /\ Polls =>
           /\ last_poll' = "pending" =>
                IF requests'.poll < MaxPollAttempts
                THEN pc' = "poll" /\ slept' = slept + 1
                ELSE AttemptFails
           /\ last_poll' = "grant" =>
                /\ pc' = "refresh"
                /\ access_token' = "gho_B"
                /\ slept' = slept
      /\ pc = "refresh" => requests'.poll = requests.poll
    ]_vars

\* C14 witness: twelve polls were answered authorization_pending, and the
\* first attempt is over.
C14_Witness ==
  /\ requests.poll = MaxPollAttempts
  /\ last_poll = "pending"
  /\ pc = "device_code"
  /\ attempt = 1

\* C15 (as claimed): polling for a device code goes on only after an
\* authorization_pending answer; after any other answer no poll request
\* follows for this device code.
C15_OtherResponsesAbort ==
  (pc = "poll" /\ requests.poll > 0) => last_poll = "pending"

\* C16 (as claimed): a call that found no stored access token and whose
\* three device-flow attempts failed ends with GetAPIKeyError, which
\* reaches the caller of _get_openai_compatible_provider_info as
\* AuthenticationError.
C16_LoginFailureIsAuthenticationError ==
  (CallDone /\ requests.device = LoginAttempts /\ requests.refresh = 0
   /\ result.status = "raised")
    => /\ result = Raised("GetAPIKeyError")
       /\ get_openai_compatible_provider_info(result)
            = Raised("AuthenticationError")

\* The API-key file the call found gave it no record: it could not be
\* opened, or its content is not valid JSON.
NoStoredRecord(key) == key.kind \in {"nofile", "badjson", "undecodable"}

\* C17 (as claimed): a call that found no API-key file, or one that is not
\* valid JSON, went on to the refresh: with a stored access token it sent a
\* refresh request, and it failed only if the refresh did; a call that
\* missed the cache and found no access token (no file, an unreadable or an
\* empty one) went through the device flow.
C17_BrokenStoreIsCacheMiss ==
  CallDone =>
    /\ (NoStoredRecord(read_key) /\ access_token_file = "gho_A")
         => /\ requests.refresh >= 1
            /\ result.status = "raised" => result.value = "GetAPIKeyError"
    /\ (~CacheHit(read_key, read_now)
        /\ read_key.kind \in {"nofile", "badjson", "record"}
        /\ access_token_file \in {NOFILE, " ", UNDECODABLE})
         => requests.device >= 1

\* C18 (as claimed): a call whose last refresh request was answered with a
\* non-empty token returned that token, whether or not the API-key file
\* could be written; and the access token obtained from the device flow is
\* the one the refresh works with, whether or not its file could be
\* written.
C18_UnwritableStoreIsTolerated ==
  /\ (CallDone /\ last_refresh.kind = "ok" /\ last_refresh.token # "")
       => result = Returned(last_refresh.token, "refresh")
  /\ (pc = "refresh" /\ requests.device >= 1) => access_token = "gho_B"

(***************************************************************************)
(* Two processes in get_api_key on one store.  Both have a stored access   *)
(* token, so each goes straight to the refresh request; the file is        *)
(* written in two steps, open(..., "w"), which truncates it, and the write *)
(* of the buffered text at offset 0 when the with block closes it.         *)
(***************************************************************************)
\* The number of pieces the serialized record of a token takes: tokens
\* differ in length.
Size(token) == IF token = "tokLL" THEN 2 ELSE 1

\* json.dump(api_key_info, f): the text of a record, piece by piece.
Serialized(rec) ==
  [k \in 1..Size(rec.token) |->
     [token |-> rec.token, expires_at |-> rec.expires_at, part |-> k]]

\* json.load(f): the record when the text is exactly one serialized record,
\* JSONDecodeError otherwise (an empty file, or a record followed by the
\* rest of a longer one).
JsonLoad(text) ==
  IF text # <<>> /\ text = Serialized(text[1])
  THEN KeyFile("record", text[1].token, text[1].expires_at)
  ELSE BadKeyFile

\* f.write at offset 0 of a file that was not truncated since: the bytes
\* beyond the written text stay.
Overwrite(text, data) == data \o SubSeq(text, Len(data) + 1, Len(text))

RaceResponses ==
  { [kind |-> "ok", token |-> tk, expires_at |-> <<e>>] :
      tk \in {"tokS", "tokLL"}, e \in {2, 3} }
  \cup { [kind |-> "http_error", token |-> ABSENT, expires_at |-> <<>>] }

SetProc(p, pc_, retry_, resp_, result_) ==
  procs' = [procs EXCEPT ![p] = [pc |-> pc_, retry |-> retry_,
                                 resp |-> resp_, result |-> result_]]

\* get_api_key, lines 91-104: the cached key, or on to the refresh.
RaceCall(p) ==
  /\ procs[p].pc = "idle"
  /\ IF CacheHit(JsonLoad(api_key_text), now)
     THEN SetProc(p, "done", 0, NoResponse,
                  Returned(Get(JsonLoad(api_key_text).token), "cache"))
     ELSE SetProc(p, "refresh", 0, NoResponse, NoResult)
  /\ UNCHANGED <<api_key_text, streamVars, authVars, traceVars, instVars,
                 configVars>>

\* _refresh_api_key: one request of its retry loop.
RaceRefresh(p) ==
  /\ procs[p].pc = "refresh"
  /\ \E resp \in RaceResponses :
       IF resp.kind = "ok"
       THEN SetProc(p, "open", 0, resp, NoResult)
       ELSE IF procs[p].retry + 1 < MaxRetries
       THEN SetProc(p, "refresh", procs[p].retry + 1, NoResponse, NoResult)
       ELSE SetProc(p, "done", 0, NoResponse, Raised("GetAPIKeyError"))
  /\ UNCHANGED <<api_key_text, streamVars, authVars, traceVars, instVars,
                 configVars>>

\* with open(self.api_key_file, "w") as f: the file is truncated.
RaceOpen(p) ==
  /\ procs[p].pc = "open"
  /\ api_key_text' = <<>>
  /\ SetProc(p, "write", 0, procs[p].resp, NoResult)
  /\ UNCHANGED <<streamVars, authVars, traceVars, instVars,
                 configVars>>

\* The end of the with block writes the text; the token is returned.
RaceWrite(p) ==
  /\ procs[p].pc = "write"
  /\ api_key_text' = Overwrite(api_key_text, Serialized(procs[p].resp))
  /\ SetProc(p, "done", 0, procs[p].resp,
             Returned(procs[p].resp.token, "refresh"))
  /\ UNCHANGED <<streamVars, authVars, traceVars, instVars,
                 configVars>>

RaceNext ==
  \E p \in Procs : RaceCall(p) \/ RaceRefresh(p) \/ RaceOpen(p) \/ RaceWrite(p)

\* The store has no API-key file, or an expired record.
InitRace ==
  /\ StreamInit /\ AuthQuiet /\ TraceQuiet /\ InstQuiet /\ ConfigQuiet
  /\ ProcsIdle
  /\ api_key_text \in
       { <<>>, Serialized([token |-> "abc", expires_at |-> <<1>>]) }

SpecRace == InitRace /\ [][RaceNext]_vars

\* Both calls are over.
BothDone == \A p \in Procs : procs[p].pc = "done"

\* The processes whose call wrote the file.
Writers == { p \in Procs : procs[p].resp.kind = "ok" }

\* C19 (as claimed): when both calls are over, each caller that got a key
\* got the token of a complete refresh response (or of the record it found
\* valid), and if the file was written it holds the token and expires_at of
\* the refresh response of one of the writers.
C19_LastWriteWins ==
  BothDone =>
    /\ \A p \in Procs :
         procs[p].result.status = "returned"
           => procs[p].result.value \in {"tokS", "tokLL"}
    /\ Writers # {} =>
         \E p \in Writers :
           JsonLoad(api_key_text)
             = KeyFile("record", procs[p].resp.token, procs[p].resp.expires_at)

(***************************************************************************)
(* Two GithubCopilotResponseIterator objects fed in any interleaving.  The *)
(* dicts and lists live in the heap; chunk_parser mutates them in place    *)
(* (+=, append, clear) through the addresses the object holds.             *)
(***************************************************************************)
MaxInstEvents == 4

\* Variant: the dict and the list are class attributes, one object for all
\* instances.
SharedAddress(h) == 1

\* The address {} or [] gets when it is evaluated in __init__: a new object.
FreshAddress(h) == Len(h) + 1

\* get_model_response_iterator / __init__: a new iterator with an empty
\* dict, an empty list and None.
NewIterator(i) ==
  /\ iters[i] = <<>>
  /\ iters' = [iters EXCEPT ![i] =
                 << [tool_calls_by_index |-> FreshAddress(heap),
                     finished_tool_calls |-> FreshAddress(heap) + 1,
                     last_tool_call_finish_reason |-> NONE] >>]
  /\ heap' = heap \o << <<>>, <<>> >>
  /\ UNCHANGED <<emitted, alone, streamVars, authVars, traceVars, raceVars,
                 configVars>>

InstEvents ==
  { Ev(<<Choice("dict", "hi", <<TC(0, "c1", "f", <<KV>>)>>, ABSENT)>>),
    Ev(<<Choice("dict", ABSENT, <<TC(0, ABSENT, ABSENT, <<RB>>)>>, ABSENT)>>),
    Ev(<<Choice("dict", ABSENT, <<TC(1, "c2", "g", <<LB, RB>>)>>, ABSENT)>>),
    Ev(<<Choice("dict", ABSENT, <<>>, "tool_calls")>>),
    Ev(<<Choice("dict", ABSENT, <<>>, "stop")>>),
    Event("none", "absent", <<>>, ABSENT, <<>>) }

\* What a chunk_parser call with outcome r leaves: r of the iterator in the
\* heap, ra of the iterator that runs alone.
IterApply(i, it, r, ra) ==
  /\ heap' = [heap EXCEPT ![it.tool_calls_by_index] = r.acc,
                          ![it.finished_tool_calls] = r.finished]
  /\ iters' = [iters EXCEPT ![i] =
                 << [it EXCEPT !.last_tool_call_finish_reason = r.last_fr] >>]
  /\ emitted' = [emitted EXCEPT ![i] =
                   [raised |-> r.raised, chunk |-> r.chunk,
                    flushed |-> r.flushed]]
  /\ alone' = [alone EXCEPT ![i] =
                 [acc |-> ra.acc, finished |-> ra.finished,
                  last_fr |-> ra.last_fr,
                  out |-> [raised |-> ra.raised, chunk |-> ra.chunk,
                           flushed |-> ra.flushed]]]

\* One chunk_parser(chunk) call on iterator i.
IterStep(i, it, chunk) ==
  IterApply(i, it,
            chunk_parser(heap[it.tool_calls_by_index],
                         heap[it.finished_tool_calls],
                         it.last_tool_call_finish_reason, chunk),
            chunk_parser(alone[i].acc, alone[i].finished, alone[i].last_fr,
                         chunk))

IterParse(i) ==
  /\ iters[i] # <<>>
  /\ nEvents < MaxInstEvents
  /\ nEvents' = nEvents + 1
  /\ \E chunk \in InstEvents : IterStep(i, iters[i][1], chunk)
  /\ UNCHANGED <<tool_calls_by_index, finished_tool_calls,
                 last_tool_call_finish_reason, event, out, history,
                 authVars, traceVars, raceVars, configVars>>

InstNext == \E i \in Iters : NewIterator(i) \/ IterParse(i)

InitInst ==
  StreamInit /\ AuthQuiet /\ TraceQuiet /\ RaceQuiet /\ InstQuiet
  /\ ConfigQuiet

SpecInst == InitInst /\ [][InstNext]_vars

\* C20: whatever the interleaving, each iterator's accumulator, finished
\* set and flush marker, and the outcome of its last chunk_parser call, are
\* those of an iterator that processed the same events alone.
C20_InstancesIndependent ==
  \A i \in Iters :
    iters[i] # <<>> =>
      /\ heap[iters[i][1].tool_calls_by_index] = alone[i].acc
      /\ heap[iters[i][1].finished_tool_calls] = alone[i].finished
      /\ iters[i][1].last_tool_call_finish_reason = alone[i].last_fr
      /\ emitted[i] = alone[i].out

\* C20 witness: iterator 1 holds the unfinished call f, iterator 2 has
\* flushed the call g, each untouched by the other's events.
C20_Witness ==
  /\ iters[1] # <<>> /\ iters[2] # <<>>
  /\ Keys(heap[iters[1][1].tool_calls_by_index]) = {0}
  /\ heap[iters[1][1].finished_tool_calls] = <<>>
  /\ heap[iters[2][1].tool_calls_by_index] = <<>>
  /\ Len(heap[iters[2][1].finished_tool_calls]) = 1
  /\ heap[iters[2][1].finished_tool_calls][1].tool_call.name = "g"
  /\ emitted[1].chunk # <<>> /\ emitted[1].chunk[1].text = "hi"


(***************************************************************************)
(* Request shaping: GithubCopilotConfig.transform_request and              *)
(* async_transform_request.  A message is [role, tool_call_id, id,         *)
(* tool_calls]; tool_calls is <<>> (no such key) or <<the list>> of        *)
(* [id, arguments]; its content and the other keys pass through unchanged  *)
(* and are left out.  A tool definition is its function name.              *)
(***************************************************************************)
Msg(role, tool_call_id, id, tool_calls) ==
  [role |-> role, tool_call_id |-> tool_call_id, id |-> id,
   tool_calls |-> tool_calls]

ToolCall(id, arguments) == [id |-> id, arguments |-> arguments]

\* The dummy tool of _ensure_tools.
noop_tool == "noop"

\* The prefix transform_request removes from the model name.
Prefix == "github_copilot/"

\* m.get("tool_calls") is truthy: the key holds a list that is not empty.
HasToolCalls(m) == m.tool_calls # <<>> /\ m.tool_calls[1] # <<>>

\* _validate_tool_arguments: the arguments the call leaves in the tool call,
\* and whether it raises ValueError.
ArgumentsEmpty(arguments) ==
  ~TruthyArgs(arguments) \/ Strip(arguments) = <<>>

validate_tool_arguments(tool_call) ==
  IF ArgumentsEmpty(tool_call.arguments)
  THEN [raised |-> FALSE,
        tool_call |-> ToolCall(tool_call.id, <<LB, RB>>)]
  ELSE [raised |-> ~JsonLoads(tool_call.arguments), tool_call |-> tool_call]

\* The loop over m["tool_calls"]: the list after the calls validated so far
\* were changed in place, and whether one of them raised.
RECURSIVE ValidateFrom(_, _)
ValidateFrom(calls, k) ==
  IF k > Len(calls)
  THEN [raised |-> FALSE, calls |-> calls]
  ELSE IF validate_tool_arguments(calls[k]).raised
  THEN [raised |-> TRUE, calls |-> calls]
  ELSE ValidateFrom([calls EXCEPT ![k] =
                       validate_tool_arguments(calls[k]).tool_call], k + 1)

\* a or b, on optional strings.
Or(a, b) == IF Truthy(a) THEN a ELSE Get(b)

\* One message of _transform_messages_with_tool_results: what is appended to
\* the transformed list, the caller's message afterwards, and whether
\* ValueError was raised.
TransformMessage(m) ==
  IF m.role = "tool" \/ Truthy(m.tool_call_id)
  THEN [raised |-> FALSE, caller |-> m,
        transformed |-> Msg("tool", Or(m.tool_call_id, m.id), ABSENT, <<>>)]
  ELSE IF m.role = "assistant" /\ HasToolCalls(m)
  THEN [raised |-> ValidateFrom(m.tool_calls[1], 1).raised,
        caller |-> [m EXCEPT !.tool_calls =
                      <<ValidateFrom(m.tool_calls[1], 1).calls>>],
        transformed |-> [m EXCEPT !.tool_calls =
                           <<ValidateFrom(m.tool_calls[1], 1).calls>>]]
  ELSE [raised |-> FALSE, caller |-> m, transformed |-> m]

\* _transform_messages_with_tool_results(messages): [raised, messages (the
\* caller's list afterwards), transformed].
RECURSIVE TransformFrom(_, _, _)
TransformFrom(msgs, k, transformed) ==
  IF k > Len(msgs)
  THEN [raised |-> FALSE, messages |-> msgs, transformed |-> transformed]
  ELSE IF TransformMessage(msgs[k]).raised
  THEN [raised |-> TRUE,
        messages |-> [msgs EXCEPT ![k] = TransformMessage(msgs[k]).caller],
        transformed |-> transformed]
  ELSE TransformFrom([msgs EXCEPT ![k] = TransformMessage(msgs[k]).caller],
                     k + 1,
                     Append(transformed, TransformMessage(msgs[k]).transformed))

transform_messages_with_tool_results(msgs) == TransformFrom(msgs, 1, <<>>)


\* tool_called of _ensure_tools, over the list the caller of _ensure_tools
\* passes.
ToolCalled(msgs) ==
  \E k \in 1..Len(msgs) : HasToolCalls(msgs[k]) \/ Truthy(msgs[k].tool_call_id)

\* Variant: the dummy tool is appended also to a list that has tools.
ensure_tools_always(params, msgs) ==
  [params EXCEPT !.tools =
     <<(IF params.tools = <<>> THEN <<>> ELSE params.tools[1])
       \o <<noop_tool>>>>]

\* _ensure_tools(optional_params, messages): the dict after the call (the
\* call stores tools in the dict it was given and returns that dict).
ensure_tools(params, msgs) ==
  [params EXCEPT !.tools =
     IF params.tools = <<>>
     THEN IF ToolCalled(msgs) THEN <<<<noop_tool>>>> ELSE <<<<>>>>
     ELSE IF params.tools[1] = <<>> THEN <<<<noop_tool>>>> ELSE params.tools]

\* copilot_required_params["stream"].
RequiredStream(params) ==
  IF params.stream = <<>> \/ params.stream[1] = FALSE
  THEN TRUE
  ELSE params.stream[1]

\* {**copilot_required_params, **optional_params}: a key of optional_params
\* wins over the same key of copilot_required_params.
Merge(required, optional) == IF optional # <<>> THEN optional ELSE <<required>>

\* model.replace("github_copilot/", "") if model.startswith("github_copilot/")
IsNotPrefix(piece) == piece # Prefix
ActualModel(name) ==
  IF name # <<>> /\ name[1] = Prefix THEN SelectSeq(name, IsNotPrefix) ELSE name

Request(name, msgs, stream, intent, n, tools) ==
  [model |-> name, messages |-> msgs, stream |-> stream, intent |-> intent,
   n |-> n, tools |-> tools]

NoRequest == Request(<<>>, <<>>, <<>>, <<>>, <<>>, <<>>)

\* The rest of transform_request once the messages are transformed: tm is
\* what _transform_messages_with_tool_results returned, shaped the dict
\* _ensure_tools returned.
BuildRequest(name, tm, params, shaped) ==
  [raised |-> FALSE,
   request |-> Request(ActualModel(name), tm.transformed,
                       Merge(RequiredStream(params), shaped.stream),
                       Merge(TRUE, shaped.intent),
                       Merge(1, shaped.n),
                       shaped.tools),
   messages |-> tm.messages,
   optional_params |-> shaped]

ShapeTransformed(name, tm, params) ==
  IF tm.raised
  THEN [raised |-> TRUE, request |-> NoRequest, messages |-> tm.messages,
        optional_params |-> params]
  ELSE BuildRequest(name, tm, params, ensure_tools(params, tm.transformed))

\* transform_request(model, messages, optional_params, ...): [raised
\* (ValueError), request, messages and optional_params after the call].
transform_request(name, msgs, params) ==
  ShapeTransformed(name, transform_messages_with_tool_results(msgs), params)

\* async_transform_request: the same statements.
async_transform_request(name, msgs, params) ==
  ShapeTransformed(name, transform_messages_with_tool_results(msgs), params)


\* Bound of the shaping calls made on one parameter dict.
MaxShapeCalls == 3

ShapeModels == { <<"gpt-4.1">>, <<Prefix, "gpt-4.1">> }

\* Conversations: without tool use, with an assistant tool-call message
\* (arguments valid, empty, or not JSON), with a tool-result message (with a
\* tool_call_id, or with only an id), with an empty tool_calls list.
ShapeMessages ==
  { <<Msg("user", ABSENT, ABSENT, <<>>)>>,
    <<Msg("user", ABSENT, ABSENT, <<>>),
      Msg("assistant", ABSENT, ABSENT, <<<<>>>>)>>,
    <<Msg("assistant", ABSENT, ABSENT, << <<ToolCall("a", <<LB, KV, RB>>)>> >>),
      Msg("tool", "a", ABSENT, <<>>)>>,
    <<Msg("assistant", ABSENT, ABSENT, << <<ToolCall("a", <<>>)>> >>)>>,
    <<Msg("assistant", ABSENT, ABSENT,
          << <<ToolCall("a", <<SP>>), ToolCall("b", <<LB>>)>> >>)>>,
    <<Msg("user", ABSENT, ABSENT, <<>>), Msg("tool", "a", ABSENT, <<>>)>>,
    <<Msg("tool", ABSENT, "m1", <<>>)>>,
    <<Msg("tool", ABSENT, ABSENT, <<>>)>> }

ShapeTools ==
  { <<>>, << <<>> >>, << <<"get_weather">> >>,
    << <<"get_weather", "search">> >>, << <<noop_tool>> >> }

ShapeParams ==
  { Params(stream, intent, n, tools) :
      stream \in {<<>>, <<TRUE>>, <<FALSE>>},
      intent \in {<<>>, <<TRUE>>, <<FALSE>>},
      n \in {<<>>, <<1>>, <<3>>},
      tools \in ShapeTools }

\* The state after a shaping call with outcome r on the caller's objects.
Shaped(via, r) ==
  /\ messages' = r.messages
  /\ optional_params' = r.optional_params
  /\ built' = Append(built, [via |-> via, raised |-> r.raised,
                             request |-> r.request, from |-> 0])
  /\ UNCHANGED <<model, given, raw_response, error, repaired, streamVars,
                 authVars, traceVars, raceVars, instVars>>

TransformRequest ==
  /\ Len(built) < MaxShapeCalls
  /\ Shaped("sync", transform_request(model, messages, optional_params))

AsyncTransformRequest ==
  /\ Len(built) < MaxShapeCalls
  /\ Shaped("async", async_transform_request(model, messages, optional_params))

\* The parameters of a built request, as a new dict.
ParamsOf(request) ==
  Params(request.stream, request.intent, request.n, request.tools)

\* One more shaping call given the model, the messages and the parameters of
\* the request built last.
Reshaped(k, r) ==
  /\ built' = Append(built, [via |-> "shaped", raised |-> r.raised,
                             request |-> r.request, from |-> k])
  /\ UNCHANGED <<model, messages, optional_params, given, raw_response,
                 error, repaired, streamVars, authVars, traceVars, raceVars,
                 instVars>>

ReshapeRequest ==
  /\ built # <<>>
  /\ Len(built) < MaxShapeCalls
  /\ ~built[Len(built)].raised
  /\ Reshaped(Len(built),
              transform_request(built[Len(built)].request.model,
                                built[Len(built)].request.messages,
                                ParamsOf(built[Len(built)].request)))

ShapeNext == TransformRequest \/ AsyncTransformRequest \/ ReshapeRequest

InitShape ==
  /\ StreamInit /\ AuthQuiet /\ TraceQuiet /\ RaceQuiet /\ InstQuiet
  /\ model \in ShapeModels
  /\ messages \in ShapeMessages
  /\ optional_params \in ShapeParams
  /\ given = [messages |-> messages, optional_params |-> optional_params]
  /\ built = <<>>
  /\ raw_response = NoRawResponse
  /\ error = NoError
  /\ repaired = NotRepaired

SpecShape == InitShape /\ [][ShapeNext]_vars

\* A request built by transform_request or async_transform_request from the
\* caller's own arguments.
FromCaller(b) == b.via \in {"sync", "async"} /\ ~b.raised

\* C21: every request built from the caller's arguments has stream = true,
\* intent = true and n = 1, whatever the caller passed for them.
C21_RequiredParamsForced ==
  \A k \in 1..Len(built) :
    FromCaller(built[k]) =>
      /\ built[k].request.stream = <<TRUE>>
      /\ built[k].request.intent = <<TRUE>>
      /\ built[k].request.n = <<1>>


\* What the caller passed: the tool definitions, and whether some message
\* carries tool calls (a list that is not empty) or a tool_call_id (a string
\* that is not empty).
GivenTools ==
  IF given.optional_params.tools = <<>> THEN <<>>
  ELSE given.optional_params.tools[1]

GivenToolUse ==
  \E k \in 1..Len(given.messages) :
    \/ HasToolCalls(given.messages[k])
    \/ Truthy(given.messages[k].tool_call_id)

Placeholders(tools) ==
  Cardinality({k \in 1..Len(tools) : tools[k] = noop_tool})

\* C22: in every request built from the caller's arguments, tools is exactly
\* one placeholder tool when the caller supplied no tool definitions and some
\* message carries tool calls or a tool_call_id, and exactly the caller's
\* list, with no placeholder added, when the caller supplied tools; and no
\* request built by any number of shaping calls has more than one
\* placeholder in tools.
C22_OnePlaceholderAtMost ==
  \A k \in 1..Len(built) :
    /\ (FromCaller(built[k]) /\ GivenTools = <<>> /\ GivenToolUse)
         => built[k].request.tools = << <<noop_tool>> >>
    /\ (FromCaller(built[k]) /\ GivenTools # <<>>)
         => built[k].request.tools = <<GivenTools>>
    /\ ~built[k].raised
         => /\ built[k].request.tools # <<>>
            /\ Placeholders(built[k].request.tools[1]) <= 1

\* C22 witness: the caller passed no tools key and a conversation with a
\* tool-result message; three shaping calls were made, the last one on the
\* shaped request, and each request has the one placeholder.
C22_Witness ==
  /\ given.optional_params.tools = <<>>
  /\ GivenToolUse
  /\ Len(built) = 3
  /\ built[3].via = "shaped"
  /\ \A k \in 1..3 : built[k].request.tools = << <<noop_tool>> >>


\* C23: a second transform_request call with the same model, the same
\* messages and the same parameter object builds a request equal to the
\* first one, and shaping the parameters of a built request changes none of
\* stream, intent, n, tools and model.
C23_ShapingIdempotent ==
  \A k \in 2..Len(built) :
    /\ (FromCaller(built[k - 1]) /\ FromCaller(built[k]))
         => built[k].request = built[k - 1].request
    /\ (built[k].via = "shaped" /\ ~built[k].raised)
         => /\ built[k].request.stream = built[k - 1].request.stream
            /\ built[k].request.intent = built[k - 1].request.intent
            /\ built[k].request.n = built[k - 1].request.n
            /\ built[k].request.tools = built[k - 1].request.tools
            /\ built[k].request.model = built[k - 1].request.model


(***************************************************************************)
(* Broken events and broken fragments.                                     *)
(***************************************************************************)
\* The event has no choices envelope: it is a mapping without a choices key.
LacksChoices(ev) == ev.kind = "dict" /\ ev.choices_kind = "absent"

MaxBrokenEvents == 3

\* Elements of delta["tool_calls"]: one that is not a mapping, one whose
\* function value is a string (with an id), and well-formed ones.
NotAMapping == Frag("notdict", <<>>, ABSENT, ABSENT, "absent", ABSENT, ArgsAbsent)
FunctionNotAMapping ==
  Frag("dict", <<0>>, "c9", "function", "notdict", ABSENT, ArgsAbsent)

BrokenFragments ==
  { NotAMapping, FunctionNotAMapping,
    TC(0, "c1", "f", <<LB>>), TC(0, ABSENT, ABSENT, <<RB>>),
    TC(1, "c2", "g", <<LB, RB>>) }

\* The element makes the loop body of _process_tool_calls_robust raise.
Malformed(f) == f.kind # "dict" \/ f.function_kind = "notdict"

BrokenEvents ==
  { Ev(<<Choice("dict", ABSENT, <<f>>, ABSENT)>>) : f \in BrokenFragments }
  \cup
  { Ev(<<Choice("dict", ABSENT, <<p[1], p[2]>>, ABSENT)>>) :
      p \in {q \in BrokenFragments \X BrokenFragments :
               Malformed(q[1]) \/ Malformed(q[2])} }
  \cup
  { Ev(<<Choice("dict", ABSENT, <<>>, "tool_calls")>>),
    Ev(<<Choice("dict", ABSENT,
                <<FunctionNotAMapping, TC(0, ABSENT, ABSENT, <<RB>>)>>,
                "tool_calls")>>) }

BrokenParse ==
  /\ nEvents < MaxBrokenEvents
  /\ \E chunk \in BrokenEvents : Parse(chunk)

BrokenNext == BrokenParse

InitBroken ==
  StreamInit /\ AuthQuiet /\ TraceQuiet /\ RaceQuiet /\ InstQuiet
  /\ ConfigQuiet

SpecBroken == InitBroken /\ [][BrokenNext]_vars

\* The fragments an event hands to _process_tool_calls_robust, the
\* well-formed ones among them, and the ones that are mappings.
IsWellFormed(f) == ~Malformed(f)
IsMapping(f) == f.kind = "dict"
Handed(ev) == IF HasChoices(ev) THEN SelectToolCalls(ev.choices) ELSE <<>>
WellFormed(ev) == SelectSeq(Handed(ev), IsWellFormed)
MappingsOf(ev) == SelectSeq(Handed(ev), IsMapping)
HasMalformed(ev) == \E k \in 1..Len(Handed(ev)) : Malformed(Handed(ev)[k])

\* tool_use is what the first reconstructing fragment of fs left of its
\* index: its name and arguments.
SurfacesFirstOf(acc, fs, tool_use) ==
  IF Reconstructing(acc, fs) = {}
  THEN tool_use = <<>>
  ELSE /\ tool_use # <<>>
       /\ \E k \in Reconstructing(acc, fs) :
            /\ \A y \in Reconstructing(acc, fs) : k <= y
            /\ tool_use[1].index = FragIndex(fs[k])
            /\ tool_use[1].function.name =
                 NameAfter(acc, SubSeq(fs, 1, k), FragIndex(fs[k]))
            /\ tool_use[1].function.arguments =
                 ArgsAfter(acc, SubSeq(fs, 1, k), FragIndex(fs[k]))

\* C25: an event with a malformed tool-call fragment does not make
\* chunk_parser raise; a chunk is emitted; the name and the arguments of
\* every accumulator entry are those of the well-formed fragments of the
\* event folded in, the malformed ones adding nothing to them; the tool call
\* surfaced is the one the first reconstructing well-formed fragment left;
\* and the accumulator or, at a tool_calls finish reason, the flushed records
\* carry them on to the following events.
C25_BrokenFragmentSkipped ==
  [][ HasMalformed(event') =>
        /\ ~out'.raised
        /\ out'.chunk # <<>>
        /\ SurfacesFirstOf(tool_calls_by_index, WellFormed(event'),
                           out'.chunk[1].tool_use)
        /\ ~out'.flushed =>
             /\ Keys(tool_calls_by_index') =
                  Keys(tool_calls_by_index)
                  \cup {FragIndex(MappingsOf(event')[k]) :
                          k \in 1..Len(MappingsOf(event'))}
             /\ \A i \in Keys(tool_calls_by_index') :
                  /\ EntryOf(tool_calls_by_index', i).name =
                       NameAfter(tool_calls_by_index, WellFormed(event'), i)
                  /\ EntryOf(tool_calls_by_index', i).arguments =
                       ArgsAfter(tool_calls_by_index, WellFormed(event'), i)
        /\ out'.flushed =>
             /\ tool_calls_by_index' = <<>>
             /\ \A i \in Keys(tool_calls_by_index)
                        \cup {FragIndex(WellFormed(event')[k]) :
                                k \in 1..Len(WellFormed(event'))} :
                  NameAfter(tool_calls_by_index, WellFormed(event'), i) # "" =>
                    \E k \in 1..Len(finished_tool_calls') :
                      /\ finished_tool_calls'[k].index = i
                      /\ finished_tool_calls'[k].tool_call.name =
                           NameAfter(tool_calls_by_index, WellFormed(event'), i)
    ]_vars

\* C25 witness: an event carried a fragment whose function is not a mapping
\* and a well-formed one; the next event, again with a malformed fragment,
\* ended the tool calls, and the flushed record has the arguments of the
\* well-formed fragments of both.
C25_Witness ==
  /\ nEvents = 3
  /\ HasMalformed(event)
  /\ out.flushed /\ ~out.raised
  /\ \E k \in 1..Len(finished_tool_calls) :
       /\ finished_tool_calls[k].tool_call.name = "f"
       /\ finished_tool_calls[k].tool_call.id = "c9"
       /\ finished_tool_calls[k].tool_call.arguments = <<LB, RB>>


(***************************************************************************)
(* _fix_json_arguments applied to an argument string, and to its result.   *)
(***************************************************************************)
\* Bound of the length, in tokens, of the argument strings repaired.
MaxArgLen == 4

ArgTokens == {LB, RB, KV, SP}

ArgStrings == UNION { [1..n -> ArgTokens] : n \in 0..MaxArgLen }

Repaired(original, once, twice, calls) ==
  [original |-> original, once |-> once, twice |-> twice, calls |-> calls]

\* One call: on the original string first, then on what the first call
\* returned.
FixJsonArguments ==
  /\ repaired.calls < 2
  /\ repaired' =
       IF repaired.calls = 0
       THEN Repaired(repaired.original, fix_json_arguments(repaired.original),
                     <<>>, 1)
       ELSE Repaired(repaired.original, repaired.once,
                     fix_json_arguments(repaired.once), 2)
  /\ UNCHANGED <<model, messages, optional_params, given, built,
                 raw_response, error, streamVars, authVars, traceVars,
                 raceVars, instVars>>

RepairNext == FixJsonArguments

InitRepair ==
  /\ StreamInit /\ AuthQuiet /\ TraceQuiet /\ RaceQuiet /\ InstQuiet
  /\ model = <<>>
  /\ messages = <<>>
  /\ optional_params = Params(<<>>, <<>>, <<>>, <<>>)
  /\ given = [messages |-> <<>>,
              optional_params |-> Params(<<>>, <<>>, <<>>, <<>>)]
  /\ built = <<>>
  /\ raw_response = NoRawResponse
  /\ error = NoError
  /\ \E original \in ArgStrings : repaired = Repaired(original, <<>>, <<>>, 0)

SpecRepair == InitRepair /\ [][RepairNext]_vars

\* C26: what _fix_json_arguments returns parses as JSON; a string that
\* parses as JSON is returned unchanged; and repairing the returned string
\* returns it again.
C26_RepairIdempotent ==
  /\ repaired.calls >= 1 =>
       /\ JsonLoads(repaired.once)
       /\ JsonLoads(repaired.original) => repaired.once = repaired.original
  /\ repaired.calls = 2 => repaired.twice = repaired.once

\* C26 witness: a string that parses only once wrapped in braces was
\* repaired twice.
C26_Witness ==
  /\ repaired.calls = 2
  /\ repaired.original = <<SP, KV>>
  /\ repaired.once = <<LB, KV, RB>>
  /\ repaired.twice = <<LB, KV, RB>>


(***************************************************************************)
(* Errors: GithubCopilotError, transform_response on an upstream response  *)
(* and get_error_class.  A message is a sequence of pieces of text.        *)
(***************************************************************************)
\* The "[GHCP-<time>-<random>] " prefix of _generate_error_id.
ErrorId == "[error_id] "

\* Variant: 600 counts as a server error too.
CategorizeThrough600(status_code) ==
  IF status_code = 400 THEN "client_error_bad_request"
  ELSE IF status_code = 401 THEN "auth_error_unauthorized"
  ELSE IF status_code = 403 THEN "auth_error_forbidden"
  ELSE IF status_code = 404 THEN "client_error_not_found"
  ELSE IF status_code = 429 THEN "rate_limit_exceeded"
  ELSE IF 500 <= status_code /\ status_code <= 600 THEN "server_error"
  ELSE "unknown_error"

\* GithubCopilotError._categorize_error
categorize_error(status_code) ==
  IF status_code = 400 THEN "client_error_bad_request"
  ELSE IF status_code = 401 THEN "auth_error_unauthorized"
  ELSE IF status_code = 403 THEN "auth_error_forbidden"
  ELSE IF status_code = 404 THEN "client_error_not_found"
  ELSE IF status_code = 429 THEN "rate_limit_exceeded"
  ELSE IF 500 <= status_code /\ status_code < 600 THEN "server_error"
  ELSE "unknown_error"

\* GithubCopilotError.__init__ raises AttributeError: raw_error is a mapping
\* that is not empty and whose "error" value has no get method.
ErrorInitRaises(raw_error) ==
  raw_error.json = "object" /\ raw_error.error \in {"string", "null"}

\* detailed_parts of GithubCopilotError.__init__
DetailedParts(raw_error) ==
  IF raw_error.json = "object" /\ raw_error.error = "dict"
     /\ Truthy(raw_error.code)
  THEN <<" [Code: ", raw_error.code, "]">>
  ELSE <<>>

\* The GithubCopilotError built by __init__ when it does not raise.
GithubCopilotError(status_code, message, raw_error) ==
  [kind |-> "GithubCopilotError", status_code |-> status_code,
   message |-> <<ErrorId>> \o message \o DetailedParts(raw_error),
   category |-> categorize_error(status_code)]

\* _get_default_error_message
get_default_error_message(status_code) ==
  IF status_code = 400 THEN <<"Bad Request: ...">>
  ELSE IF status_code = 401 THEN <<"Unauthorized: ...">>
  ELSE IF status_code = 403 THEN <<"Forbidden: ...">>
  ELSE IF status_code = 404 THEN <<"Not Found: ...">>
  ELSE IF status_code = 429 THEN <<"Rate Limit Exceeded: ...">>
  ELSE IF status_code >= 500 THEN <<"Server Error: ...">>
  ELSE <<"Error with status code: ", ToString(status_code)>>

\* _extract_error_message(error_obj, status_code), error_obj being the
\* "error" value of the body.
extract_error_message(body, status_code) ==
  IF body.error \in {"dict", "absent"}
  THEN IF Truthy(body.message) THEN <<body.message>>
       ELSE get_default_error_message(status_code)
  ELSE IF body.error = "null" THEN <<"None">> ELSE <<"str(error_obj)">>

BadRequestCauses(status_code) ==
  IF status_code = 400
  THEN <<"\n\nGitHub Copilot Bad Request - Common causes: ...">>
  ELSE <<>>

DebugInfo == <<"\nRequest: POST https://api.githubcopilot.com">>

Raises(exception) ==
  [kind |-> exception, status_code |-> 0, message |-> <<>>,
   category |-> "none"]

\* _handle_error_response: the exception that leaves it.
handle_error_response(response) ==
  IF response.body.json = "not_json"
  THEN GithubCopilotError(response.status_code,
                          <<"Invalid JSON response: ">> \o response.text
                          \o DebugInfo, NoBody)
  ELSE IF response.body.json # "object" \/ ErrorInitRaises(response.body)
  THEN Raises("AttributeError")
  ELSE GithubCopilotError(response.status_code,
                          extract_error_message(response.body,
                                                response.status_code)
                          \o BadRequestCauses(response.status_code)
                          \o DebugInfo,
                          response.body)

\* error_details of the except clause of transform_response: a mapping
\* without an "error" key.
ErrorDetails == Body("object", "absent", ABSENT, ABSENT)

\* The except clauses of transform_response on what _handle_error_response
\* raised.
Reraise(raised) ==
  IF raised.kind = "GithubCopilotError"
  THEN raised
  ELSE GithubCopilotError(500,
         <<"Internal error during response transformation: ", raised.kind>>,
         ErrorDetails)

\* transform_response(raw_response): what it raises, or kind "response" when
\* the status is below 400 and the base transformation of OpenAIConfig takes
\* over.
transform_response(response) ==
  IF response.status_code >= 400
  THEN Reraise(handle_error_response(response))
  ELSE [kind |-> "response", status_code |-> response.status_code,
        message |-> <<>>, category |-> "none"]


\* The except clause of get_error_class.
FallbackError(status_code, exception) ==
  GithubCopilotError(IF status_code = 0 THEN 500 ELSE status_code,
                     <<"Error creating error class: ", exception>>,
                     ErrorDetails)

\* get_error_class(error_message, status_code, headers): the error it
\* returns.  args.text is error_message, args.is_none says that it is None,
\* args.body is what json.loads made of it when it starts with '{', ends
\* with '}' and parses, NoBody otherwise.
get_error_class(args) ==
  IF args.is_none
  THEN FallbackError(args.status_code, "TypeError")
  ELSE IF ErrorInitRaises(args.body)
  THEN FallbackError(args.status_code, "AttributeError")
  ELSE GithubCopilotError(args.status_code, args.text, args.body)

\* Largest status code explored.
MaxStatusCode == 600

StatusCodes == 100..MaxStatusCode

ErrorBodies ==
  { Body("object", "dict", "Test error message", ABSENT),
    Body("object", "dict", "m", "c1"),
    Body("object", "dict", ABSENT, "c1"),
    Body("object", "absent", ABSENT, ABSENT),
    Body("object", "string", ABSENT, ABSENT),
    Body("object", "null", ABSENT, ABSENT),
    Body("not_object", "absent", ABSENT, ABSENT),
    Body("not_json", "absent", ABSENT, ABSENT) }

RawResponse(status_code, body) ==
  [call |-> "transform_response", status_code |-> status_code, body |-> body,
   text |-> <<"body">>, is_none |-> FALSE]

ErrorClassArgs(status_code, text, body, is_none) ==
  [call |-> "get_error_class", status_code |-> status_code, body |-> body,
   text |-> text, is_none |-> is_none]

\* error_message arguments: plain text, the empty string, the text of an
\* error envelope, of an object whose error is a string, text in braces that
\* is not JSON, and None.
ErrorMessages ==
  { ErrorClassArgs(0, <<"Test error">>, NoBody, FALSE),
    ErrorClassArgs(0, <<>>, NoBody, FALSE),
    ErrorClassArgs(0, <<"{\"error\": {\"message\": \"m\", \"code\": \"c1\"}}">>,
                   Body("object", "dict", "m", "c1"), FALSE),
    ErrorClassArgs(0, <<"{\"error\": \"x\"}">>,
                   Body("object", "string", ABSENT, ABSENT), FALSE),
    ErrorClassArgs(0, <<"{bad}">>, NoBody, FALSE),
    ErrorClassArgs(0, <<>>, NoBody, TRUE) }

ErrorInputs ==
  { RawResponse(status_code, body) :
      status_code \in StatusCodes, body \in ErrorBodies }
  \cup
  { [args EXCEPT !.status_code = status_code] :
      status_code \in {0} \cup StatusCodes, args \in ErrorMessages }

ErrorFrame ==
  UNCHANGED <<model, messages, optional_params, given, built, raw_response,
              repaired, streamVars, authVars, traceVars, raceVars, instVars>>

TransformResponse ==
  /\ raw_response.call = "transform_response"
  /\ error = NoError
  /\ error' = transform_response(raw_response)
  /\ ErrorFrame

GetErrorClass ==
  /\ raw_response.call = "get_error_class"
  /\ error = NoError
  /\ error' = get_error_class(raw_response)
  /\ ErrorFrame

ErrorNext == TransformResponse \/ GetErrorClass

InitError ==
  /\ StreamInit /\ AuthQuiet /\ TraceQuiet /\ RaceQuiet /\ InstQuiet
  /\ model = <<>>
  /\ messages = <<>>
  /\ optional_params = Params(<<>>, <<>>, <<>>, <<>>)
  /\ given = [messages |-> <<>>,
              optional_params |-> Params(<<>>, <<>>, <<>>, <<>>)]
  /\ built = <<>>
  /\ raw_response \in ErrorInputs
  /\ error = NoError
  /\ repaired = NotRepaired

SpecError == InitError /\ [][ErrorNext]_vars

\* C27: for an upstream response with status 400 or above, whatever its
\* body, transform_response raises a GithubCopilotError whose status_code is
\* the upstream status code.
C27_StatusPreserved ==
  (raw_response.call = "transform_response" /\ raw_response.status_code >= 400
   /\ error # NoError)
    => (error.kind = "GithubCopilotError"
        /\ error.status_code = raw_response.status_code)


\* The category the taxonomy gives a status code.
Taxonomy(status_code) ==
  [c \in {"client_error_bad_request", "auth_error_unauthorized",
          "auth_error_forbidden", "client_error_not_found",
          "rate_limit_exceeded", "server_error", "unknown_error"} |->
     CASE c = "client_error_bad_request" -> status_code = 400
       [] c = "auth_error_unauthorized" -> status_code = 401
       [] c = "auth_error_forbidden" -> status_code = 403
       [] c = "client_error_not_found" -> status_code = 404
       [] c = "rate_limit_exceeded" -> status_code = 429
       [] c = "server_error" -> status_code \in 500..599
       [] c = "unknown_error" ->
            status_code \notin {400, 401, 403, 404, 429} \cup 500..599]

\* C28: the category of an error is the one the taxonomy gives its status
\* code (400 bad request, 401 unauthorized, 403 forbidden, 404 not found,
\* 429 rate limited, 500 to 599 server error, anything else unknown), and no
\* other category applies to that code.
C28_CategoryOfStatus ==
  error.kind = "GithubCopilotError" =>
    /\ Taxonomy(error.status_code)[error.category]
    /\ \A c \in DOMAIN Taxonomy(error.status_code) :
         Taxonomy(error.status_code)[c] => c = error.category

\* C28 witness: get_error_class built an error for status 599, a server
\* error.
C28_Witness ==
  /\ raw_response.call = "get_error_class"
  /\ error.kind = "GithubCopilotError"
  /\ error.status_code = 599
  /\ error.category = "server_error"

\* C29: get_error_class returns a GithubCopilotError whose status_code is the
\* given status code and whose message is the given error_message.
C29_ErrorClassKeepsArguments ==
  (raw_response.call = "get_error_class" /\ ~raw_response.is_none
   /\ error # NoError)
    => /\ error.kind = "GithubCopilotError"
       /\ error.status_code = raw_response.status_code
       /\ error.message = raw_response.text


(***************************************************************************)
(* Lifecycle of the two stored credentials over any sequence of            *)
(* get_api_key calls.                                                      *)
(***************************************************************************)
\* A non-empty access token can be read from the store.
HasStoredToken ==
  access_token_file # UNDECODABLE /\ StoredAccessToken(access_token_file) # ""

\* This step is a refresh request answered with a body that holds a token
\* key: _refresh_api_key returns it.
RefreshSucceeds == pc = "refresh" /\ last_refresh'.kind = "ok"

NewRecord == KeyFile("record", last_refresh'.token, last_refresh'.expires_at)

\* The access-token file changes only in the step in which a poll is
\* granted, to the granted token; while a non-empty token is stored no step
\* enters the device flow or changes the file; the device flow is entered
\* only from a store without a readable non-empty token.
AccessTokenLifecycle ==
  /\ access_token_file' # access_token_file
       => /\ pc = "poll" /\ last_poll' = "grant"
          /\ access_token_file' = access_token'
  /\ HasStoredToken
       => ~InDeviceFlow' /\ access_token_file' = access_token_file
  /\ (InDeviceFlow' /\ ~InDeviceFlow)
       => (pc = "idle" /\ access_token_file \in {NOFILE, " "})

\* C30 (as claimed): the access-token file is written only by a successful
\* device-flow login, the device flow never runs while a non-empty access
\* token is stored, whatever the refresh attempts answer, and every
\* successful refresh leaves the new record in the API-key file.
C30_EveryRefreshOverwrites ==
  [][ /\ AccessTokenLifecycle
      /\ RefreshSucceeds => api_key_file' = NewRecord ]_vars

\* C30 (amended): the same, the last part for every successful refresh made
\* while the API-key file can be opened for writing; when it cannot, the
\* file keeps its content.
C30_CredentialLifecycle ==
  [][ /\ AccessTokenLifecycle
      /\ RefreshSucceeds
           => api_key_file' = (IF can_write_api THEN NewRecord
                               ELSE api_key_file) ]_vars

\* A call on a store that holds an access token ended after all three
\* refresh requests failed: no device-code request was sent and the token
\* is still stored; the API-key file holds the record of an earlier
\* successful refresh.
C30_Witness ==
  /\ CallDone
  /\ result = Raised("GetAPIKeyError")
  /\ requests = [device |-> 0, poll |-> 0, refresh |-> MaxRetries]
  /\ last_refresh.kind = "http_error"
  /\ access_token_file = "gho_A"
  /\ api_key_file = KeyFile("record", "tokB", <<2>>)
  /\ now = 2


(***************************************************************************)
(* What get_api_key hands out.                                             *)
(***************************************************************************)
\* C31: a get_api_key call that returned, after any sequence of calls on the
\* same store, returned a non-empty token; a record with an empty token
\* written by a refresh is not returned as a cache hit by a later call.
C31_ReturnedTokenNonEmpty ==
  (CallDone /\ result.status = "returned") => result.value \notin {"", ABSENT, NONE}


(***************************************************************************)
(* Termination of get_api_key.  A call is one thread running the loops of  *)
(* get_access_token, _poll_for_access_token and _refresh_api_key: each     *)
(* request it is about to send is sent and answered (the HTTP client       *)
(* returns or raises).                                                     *)
(***************************************************************************)
AuthFairness ==
  /\ WF_vars(GetDeviceCode)
  /\ WF_vars(PollForAccessToken)
  /\ WF_vars(RefreshApiKey)

SpecAuthLive == InitAuth /\ [][AuthNext]_vars /\ AuthFairness

\* The requests of the call so far are within the bounds of the three loops.
RequestsBounded ==
  /\ requests.device <= LoginAttempts
  /\ requests.poll <= MaxPollAttempts
  /\ requests.refresh <= MaxRetries

\* This step is the third refresh request of the call and it failed.
LastRefreshFails ==
  /\ pc = "refresh"
  /\ requests'.refresh = MaxRetries
  /\ last_refresh'.kind # "ok"

\* C32: every get_api_key call ends, returning or raising, after at most 3
\* device-code requests, at most 12 poll requests for one device code and
\* at most 3 refresh requests; when the third refresh request fails the call
\* raises GetAPIKeyError at once, without another request of any kind.
C32_CallTerminates ==
  /\ []RequestsBounded
  /\ [][ LastRefreshFails
           => /\ pc' = "idle"
              /\ result' = Raised("GetAPIKeyError")
              /\ requests'.device = requests.device
              /\ requests'.poll = requests.poll ]_vars
  /\ (pc # "idle") ~> CallDone

\* C32 witness: a call that ran the device flow three times, was granted a
\* token at the 12th poll of the third device code, and whose three refresh
\* requests all failed, has ended with GetAPIKeyError.
C32_Witness ==
  /\ CallDone
  /\ result = Raised("GetAPIKeyError")
  /\ requests = [device |-> LoginAttempts, poll |-> MaxPollAttempts,
                 refresh |-> MaxRetries]
  /\ last_refresh.kind \in {"no_token", "http_error"}


(***************************************************************************)
(* Streams of single fragments for one call index whose id is missing,     *)
(* null, empty or set, with and without a name, mixed with finish reasons: *)
(* partial fragments, and what is surfaced when the name arrives.          *)
(***************************************************************************)
MaxPartialEvents == 3

PartialFragments ==
  { TC(0, id, name, arguments) :
      id \in {ABSENT, NONE, "", "c1", "c2"},
      name \in {ABSENT, "f"},
      arguments \in {ArgsAbsent, <<LB>>} }
  \cup { TC(0, ABSENT, "", <<RB>>), TC(1, "c2", "g", <<KV>>) }

PartialEvents ==
  { Ev(<<Choice("dict", ABSENT, <<f>>, ABSENT)>>) : f \in PartialFragments }
  \cup
  { Ev(<<Choice("dict", ABSENT, <<>>, fr)>>) : fr \in {"tool_calls", "stop"} }
  \cup
  { Ev(<<Choice("dict", ABSENT, <<f>>, "tool_calls")>>) :
      f \in { TC(0, "c1", ABSENT, <<LB>>), TC(0, ABSENT, "f", <<RB>>) } }

PartialParse ==
  /\ nEvents < MaxPartialEvents
  /\ \E chunk \in PartialEvents : Parse(chunk)

PartialNext == PartialParse

InitPartial ==
  StreamInit /\ AuthQuiet /\ TraceQuiet /\ RaceQuiet /\ InstQuiet
  /\ ConfigQuiet

SpecPartial == InitPartial /\ [][PartialNext]_vars

\* The event hands exactly one fragment to _process_tool_calls_robust.
OneFragment(ev) == HasChoices(ev) /\ Len(SelectToolCalls(ev.choices)) = 1
TheFragment(ev) == SelectToolCalls(ev.choices)[1]

\* The fragment f arrives while its index has no name, and brings none /
\* brings one.
IsPartial(acc, f) ==
  EntryOrNew(acc, FragIndex(f)).name = "" /\ ~Truthy(f.name)
SuppliesName(acc, f) ==
  EntryOrNew(acc, FragIndex(f)).name = "" /\ Truthy(f.name)

\* The entry of index i holds the id and the arguments of the fragments fs.
Holds(acc, i, fs) ==
  /\ HasKey(acc, i)
  /\ EntryOf(acc, i).id = LastId(FragsAt(fs, i))
  /\ EntryOf(acc, i).arguments = ConcatArgs(FragsAt(fs, i))

\* The tool call surfaced for index i once its name has arrived, built from
\* the fragments fs.
SurfacedFrom(fs, i) ==
  << [index |-> i, id |-> LastId(FragsAt(fs, i)), type |-> "function",
      function |-> [name |-> LastName(FragsAt(fs, i)),
                    arguments |-> ConcatArgs(FragsAt(fs, i))]] >>

\* No record of index i was appended to the finished list.
NoRecordOf(i) ==
  \A r \in Appended(finished_tool_calls, finished_tool_calls') : r.index # i

\* C33 (as claimed): a fragment for an index without a name, bringing none,
\* raises nothing and surfaces nothing; what it carried is in the
\* accumulator afterwards; and the call surfaced when the name arrives has
\* the id stored by then.
C33_PartialAlwaysKept ==
  [][ OneFragment(event') =>
        /\ IsPartial(tool_calls_by_index, TheFragment(event')) =>
             /\ ~out'.raised
             /\ out'.chunk # <<>> /\ out'.chunk[1].tool_use = <<>>
             /\ Holds(tool_calls_by_index', FragIndex(TheFragment(event')),
                      Append(history, TheFragment(event')))
        /\ SuppliesName(tool_calls_by_index, TheFragment(event')) =>
             /\ out'.chunk # <<>> /\ out'.chunk[1].tool_use # <<>>
             /\ EntryOrNew(tool_calls_by_index,
                           FragIndex(TheFragment(event'))).id # ""
                  => out'.chunk[1].tool_use[1].id =
                       EntryOrNew(tool_calls_by_index,
                                  FragIndex(TheFragment(event'))).id
    ]_vars

\* C33 (amended): a fragment for an index without a name, bringing none,
\* raises nothing and surfaces nothing.  Unless its event ends the tool
\* calls, the entry afterwards holds the arguments of all the fragments of
\* the index since the last flush and the id of the last of them that
\* carried one (an empty one included); when its event ends the tool calls
\* the entry is dropped without a record.  The call surfaced when a fragment
\* supplies the name is built from all the fragments of the index since the
\* last flush in the same way.
C33_PartialKeptUntilFlush ==
  [][ OneFragment(event') =>
        /\ IsPartial(tool_calls_by_index, TheFragment(event')) =>
             /\ ~out'.raised
             /\ out'.chunk # <<>> /\ out'.chunk[1].tool_use = <<>>
             /\ ~out'.flushed =>
                  Holds(tool_calls_by_index', FragIndex(TheFragment(event')),
                        Append(history, TheFragment(event')))
             /\ out'.flushed =>
                  /\ tool_calls_by_index' = <<>>
                  /\ NoRecordOf(FragIndex(TheFragment(event')))
        /\ SuppliesName(tool_calls_by_index, TheFragment(event')) =>
             /\ ~out'.raised
             /\ out'.chunk # <<>>
             /\ out'.chunk[1].tool_use =
                  SurfacedFrom(Append(history, TheFragment(event')),
                               FragIndex(TheFragment(event')))
    ]_vars

\* C33 witness: the id came first, the arguments next, the name last, and
\* the chunk of the last event surfaces the three together.
C33_Witness ==
  /\ history = << TC(0, "c1", ABSENT, ArgsAbsent), TC(0, ABSENT, ABSENT, <<LB>>),
                  TC(0, ABSENT, "f", ArgsAbsent) >>
  /\ out.chunk # <<>>
  /\ out.chunk[1].tool_use =
       << [index |-> 0, id |-> "c1", type |-> "function",
           function |-> [name |-> "f", arguments |-> <<LB>>]] >>


(***************************************************************************)
(* What the tool_use of a chunk is made of.                                *)
(***************************************************************************)
\* The last call emitted a chunk with a tool_use.
Surfaced(o) == o.chunk # <<>> /\ o.chunk[1].tool_use # <<>>

\* C34: the tool_use of a chunk is the state of its index after one of the
\* event's fragments was folded in: the id, the name and the arguments
\* accumulated from all the fragments of that index since the last flush up
\* to that fragment; and when two consecutive chunks surface the same index
\* without a flush in between, the arguments of the first are a prefix of
\* the arguments of the second.
C34_SurfacedIsAccumulated ==
  [][ (HasChoices(event') /\ Surfaced(out')) =>
        /\ \E k \in 1..Len(Handed(event')) :
             /\ FragIndex(Handed(event')[k]) = out'.chunk[1].tool_use[1].index
             /\ out'.chunk[1].tool_use =
                  SurfacedFrom(history \o SubSeq(Handed(event'), 1, k),
                               out'.chunk[1].tool_use[1].index)
        /\ (Surfaced(out) /\ ~out.flushed
            /\ out.chunk[1].tool_use[1].index = out'.chunk[1].tool_use[1].index)
             => IsPrefix(out.chunk[1].tool_use[1].function.arguments,
                         out'.chunk[1].tool_use[1].function.arguments)
    ]_vars

\* C34 witness: the name and the first part of the arguments came in one
\* event, the closing brace alone in the next; the chunk of the second
\* event carries the id, the name and both parts.
C34_Witness ==
  /\ HasChoices(event)
  /\ Handed(event) = <<TC(0, ABSENT, ABSENT, <<RB>>)>>
  /\ Surfaced(out)
  /\ out.chunk[1].tool_use =
       << [index |-> 0, id |-> "c1", type |-> "function",
           function |-> [name |-> "f", arguments |-> <<KV, RB>>]] >>


\* C35: the text of an emitted chunk is a string: the content of the first
\* choice's delta when that is a string, and the empty string when the
\* content is missing or null, when the delta is null, and when the event
\* has no choices.
C35_TextIsString ==
  (nEvents > 0 /\ out.chunk # <<>>) =>
    /\ out.chunk[1].text # NONE
    /\ out.chunk[1].text = IF FirstContentDelta(event) \in {ABSENT, NONE}
                           THEN ""
                           ELSE FirstContentDelta(event)


(***************************************************************************)
(* When chunk_parser flushes.                                              *)
(***************************************************************************)
\* Some choice of the event carries the finish reason tool_calls.
SomeFinishIs(ev, reason) ==
  /\ HasChoices(ev)
  /\ \E k \in 1..Len(ev.choices) : ev.choices[k].finish_reason = reason

\* The call left the finished list as it was and kept every entry of the
\* accumulator.
NothingFlushed ==
  /\ finished_tool_calls' = finished_tool_calls
  /\ Keys(tool_calls_by_index) \subseteq Keys(tool_calls_by_index')

\* C36 (as claimed): the flush runs during an event exactly when some choice
\* of the event carries the finish reason tool_calls, and the chunk then
\* reports tool_calls; otherwise the finished list is unchanged and the
\* accumulator is not cleared.
C36_FlushIffSomeToolCalls ==
  [][ (HasChoices(event') /\ out'.chunk # <<>>) =>
        /\ out'.flushed <=> SomeFinishIs(event', "tool_calls")
        /\ out'.flushed => out'.chunk[1].finish_reason = "tool_calls"
        /\ ~SomeFinishIs(event', "tool_calls") => NothingFlushed ]_vars

\* C36 (amended): the flush runs exactly when the first non-empty finish
\* reason, in the order of the choices, is tool_calls, and the chunk then
\* reports tool_calls; an event without a finish reason, or whose first
\* non-empty finish reason is another one, leaves the finished list
\* unchanged and the accumulator uncleared, also when a later choice
\* carries tool_calls.
C36_FlushIffFirstFinishToolCalls ==
  [][ (HasChoices(event') /\ out'.chunk # <<>>) =>
        /\ out'.flushed <=> FirstFinishIs(event', "tool_calls")
        /\ out'.flushed =>
             /\ out'.chunk[1].is_finished
             /\ out'.chunk[1].finish_reason = "tool_calls"
             /\ last_tool_call_finish_reason' = "tool_calls"
        /\ ~FirstFinishIs(event', "tool_calls") =>
             /\ NothingFlushed
             /\ out'.chunk[1].finish_reason # "tool_calls"
             /\ last_tool_call_finish_reason' = last_tool_call_finish_reason
    ]_vars

\* C36 witness: the accumulator holds a named call; the event's first choice
\* finished with stop and its second with tool_calls: the chunk reports
\* stop, nothing was flushed and the call is still in the accumulator.
C36_Witness ==
  /\ HasChoices(event) /\ Len(event.choices) = 2
  /\ event.choices[1].finish_reason = "stop"
  /\ event.choices[2].finish_reason = "tool_calls"
  /\ ~out.flushed
  /\ out.chunk # <<>> /\ out.chunk[1].finish_reason = "stop"
  /\ finished_tool_calls = <<>>
  /\ HasKey(tool_calls_by_index, 0)
  /\ EntryOf(tool_calls_by_index, 0).name = "f"


\* C37: when the caller supplied no tool definitions (no tools key, or an
\* empty list) and no message carries tool calls or a tool_call_id, no
\* request built from the caller's arguments, by the first call or by a
\* later one on the same parameter object, contains the placeholder tool.
C37_NoPlaceholderWithoutToolUse ==
  \A k \in 1..Len(built) :
    (FromCaller(built[k]) /\ GivenTools = <<>> /\ ~GivenToolUse)
      => \/ built[k].request.tools = <<>>
         \/ Placeholders(built[k].request.tools[1]) = 0


\* C38: between two flushes, an entry that holds a non-empty id keeps it
\* through every event that brings no fragment with a non-empty id for its
\* index: fragments without an id, with a null id or with an empty id do
\* not change it.
C38_IdChangesOnlyByNonEmptyId ==
  [][ ~out'.flushed =>
        \A i \in Keys(tool_calls_by_index) :
          (/\ EntryOf(tool_calls_by_index, i).id # ""
           /\ \A k \in 1..Len(Handed(event')) :
                FragIndex(Handed(event')[k]) = i
                  => ~Truthy(Handed(event')[k].id))
            => /\ HasKey(tool_calls_by_index', i)
               /\ EntryOf(tool_calls_by_index', i).id
                    = EntryOf(tool_calls_by_index, i).id ]_vars


\* C39: an event with malformed tool-call fragments leaves the accumulator
\* as if only its well-formed fragments had arrived: a skipped fragment
\* creates no entry and changes no id, name or arguments.
C39_SkippedLeavesNoTrace ==
  [][ (HasMalformed(event') /\ ~out'.flushed) =>
        tool_calls_by_index' =
          process_tool_calls_robust(tool_calls_by_index,
                                    WellFormed(event')).acc ]_vars

=============================================================================
